---- MODULE Spec2Model ----
(***************************************************************************)
(* A model of the sharp-rustic chess engine core: the bitboard Board with  *)
(* its incrementally maintained state (board.rs, board/history.rs), make / *)
(* unmake, the alpha-beta search with its transposition-table batching     *)
(* (search/alpha_beta.rs, search/defs.rs, search/time.rs), the pawn        *)
(* structure and mobility evaluation with their caches (evaluation/pawn.rs,*)
(* evaluation/mobility.rs, misc/bits.rs) and the engine's handling of the  *)
(* position and setoption reports (engine/comm_reports.rs,                 *)
(* engine/utils.rs).                                                       *)
(*                                                                         *)
(* Bitboards are modelled as sets of squares (bit s set <=> s in the set); *)
(* |, & and ^ become union, intersection and symmetric difference.  A      *)
(* Zobrist key is modelled as the set of random numbers XOR-ed into it,    *)
(* each random being an independent token, so that ^ is again symmetric    *)
(* difference.                                                             *)
(***************************************************************************)
EXTENDS Integers, Sequences, FiniteSets, TLC

VARIABLES
    board,              \* the Board: bb_pieces, bb_side, game_state, history, piece_list
    stack,              \* the call stack of alpha_beta / collect_sharp_sequence invocations
    ret,                \* the value returned by the invocation that returned last
    search_info,        \* SearchInfo: nodes, ply, terminate, allocated_time, killer_moves, history_heuristic
    search_params,      \* SearchParams: sharp_margin, quiet
    thread_local_data,  \* ThreadLocalData: tt_batch, local_tt_cache, nodes_searched
    tt,                 \* the global transposition table (behind the RwLock)
    tt_enabled,         \* SearchRefs.tt_enabled
    env,                \* the environment: the timer reading and the control channel
    settings,           \* the Engine's Settings: threads, quiet, tt_size, sharp_margin
    trace               \* observation log of the last step (what the node did)

vars == <<board, stack, ret, search_info, search_params, thread_local_data,
          tt, tt_enabled, env, settings, trace>>

(***************************************************************************)
(* Sides, pieces, squares                                                  *)
(***************************************************************************)
WHITE == 0
BLACK == 1
Sides == {WHITE, BLACK}

KING == 0
QUEEN == 1
ROOK == 2
BISHOP == 3
KNIGHT == 4
PAWN == 5
NONE == 6
PieceTypes == KING..PAWN

Squares == 0..63
\* Option<u8>::None of game_state.en_passant
EP_NONE == 64

FileOf(sq) == sq % 8
RankOf(sq) == sq \div 8
Sq(f, r) == r * 8 + f
OnBoard(f, r) == f \in 0..7 /\ r \in 0..7

\* a ^ b on bitboards and on Zobrist keys
Xor(a, b) == (a \ b) \cup (b \ a)

\* BB_SQUARES[square]
BB_SQUARES(square) == {square}

\* FLIP[square]: the square mirrored over the horizontal axis (square ^ 56)
FLIP(square) == Sq(FileOf(square), 7 - RankOf(square))

\* a & b on the 4-bit castling masks
RECURSIVE BitAnd(_, _)
BitAnd(a, b) ==
    IF a = 0 \/ b = 0 THEN 0
    ELSE (IF a % 2 = 1 /\ b % 2 = 1 THEN 1 ELSE 0) + 2 * BitAnd(a \div 2, b \div 2)

(***************************************************************************)
(* Zobrist randoms (board/zobrist.rs): one independent random per          *)
(* (side, piece, square), per castling mask, per side, per ep square.      *)
(***************************************************************************)
zr_piece(side, piece, square) == {1000 + side * 384 + piece * 64 + square}
zr_castling(permissions) == {2000 + permissions}
zr_side(side) == {3000 + side}
zr_en_passant(ep) == {4000 + ep}

(***************************************************************************)
(* Piece-square tables (evaluation/psqt.rs): material plus a placement     *)
(* bonus read from a table laid out with rank 8 first.                     *)
(***************************************************************************)
PieceValue(piece) ==
    CASE piece = KING -> 0
      [] piece = QUEEN -> 900
      [] piece = ROOK -> 500
      [] piece = BISHOP -> 320
      [] piece = KNIGHT -> 310
      [] piece = PAWN -> 100

PSQT_MG(piece, s) ==
    PieceValue(piece)
    + (CASE piece = PAWN -> 5 * (7 - (s \div 8))
         [] piece = KING -> 2 * (s \div 8) + (s % 8)
         [] OTHER -> (s \div 8) - 3 + 2 * (s % 8))

(***************************************************************************)
(* Board accessors (board.rs)                                              *)
(***************************************************************************)
occupancy(b) == b.bb_side[WHITE] \cup b.bb_side[BLACK]

us(b) == b.game_state.active_color

opponent(b) == 1 - b.game_state.active_color

\* trailing_zeros of the king bitboard: the lowest set bit, 64 for an empty board
king_square(b, side) ==
    IF b.bb_pieces[side][KING] = {} THEN 64
    ELSE CHOOSE s \in b.bb_pieces[side][KING] : \A t \in b.bb_pieces[side][KING] : s <= t

(***************************************************************************)
(* Incremental update functions (board.rs)                                 *)
(***************************************************************************)
remove_piece_no_zobrist(b, side, piece, square) ==
    LET s == IF side = WHITE THEN FLIP(square) ELSE square
    IN  [b EXCEPT !.bb_pieces[side][piece] = Xor(@, BB_SQUARES(square)),
                  !.bb_side[side] = Xor(@, BB_SQUARES(square)),
                  !.piece_list[square] = NONE,
                  !.game_state.psqt[side] = @ - PSQT_MG(piece, s)]

remove_piece_keep_list(b, side, piece, square) ==
    LET s == IF side = WHITE THEN FLIP(square) ELSE square
    IN  [b EXCEPT !.bb_pieces[side][piece] = Xor(@, BB_SQUARES(square)),
                  !.bb_side[side] = Xor(@, BB_SQUARES(square)),
                  !.game_state.zobrist_key = Xor(@, zr_piece(side, piece, square)),
                  !.game_state.psqt[side] = @ - PSQT_MG(piece, s)]

remove_piece(b, side, piece, square) ==
    LET flip == side = WHITE
        s == IF flip THEN FLIP(square) ELSE square
    IN  [b EXCEPT !.bb_pieces[side][piece] = Xor(@, BB_SQUARES(square)),
                  !.bb_side[side] = Xor(@, BB_SQUARES(square)),
                  !.piece_list[square] = NONE,
                  !.game_state.zobrist_key = Xor(@, zr_piece(side, piece, square)),
                  !.game_state.psqt[side] = @ - PSQT_MG(piece, s)]

put_piece_no_side_mask(b, side, piece, square) ==
    LET s == IF side = WHITE THEN FLIP(square) ELSE square
    IN  [b EXCEPT !.bb_pieces[side][piece] = @ \cup BB_SQUARES(square),
                  !.piece_list[square] = piece,
                  !.game_state.zobrist_key = Xor(@, zr_piece(side, piece, square)),
                  !.game_state.psqt[side] = @ + PSQT_MG(piece, s)]

put_piece_no_flip(b, side, piece, square) ==
    [b EXCEPT !.bb_pieces[side][piece] = @ \cup BB_SQUARES(square),
              !.bb_side[side] = @ \cup BB_SQUARES(square),
              !.piece_list[square] = piece,
              !.game_state.zobrist_key = Xor(@, zr_piece(side, piece, square)),
              !.game_state.psqt[side] = @ + PSQT_MG(piece, square)]

put_piece(b, side, piece, square) ==
    LET flip == side = WHITE
        s == IF flip THEN FLIP(square) ELSE square
    IN  [b EXCEPT !.bb_pieces[side][piece] = @ \cup BB_SQUARES(square),
                  !.bb_side[side] = @ \cup BB_SQUARES(square),
                  !.piece_list[square] = piece,
                  !.game_state.zobrist_key = Xor(@, zr_piece(side, piece, square)),
                  !.game_state.psqt[side] = @ + PSQT_MG(piece, s)]

move_piece(b, side, piece, from, to) ==
    put_piece(remove_piece(b, side, piece, from), side, piece, to)

set_ep_square(b, square) ==
    [b EXCEPT !.game_state.en_passant = square,
              !.game_state.zobrist_key =
                  Xor(Xor(@, zr_en_passant(b.game_state.en_passant)), zr_en_passant(square))]

clear_ep_square(b) ==
    [b EXCEPT !.game_state.en_passant = EP_NONE,
              !.game_state.zobrist_key =
                  Xor(Xor(@, zr_en_passant(b.game_state.en_passant)), zr_en_passant(EP_NONE))]

swap_side(b) ==
    [b EXCEPT !.game_state.active_color = 1 - @,
              !.game_state.zobrist_key =
                  Xor(Xor(@, zr_side(b.game_state.active_color)),
                      zr_side(1 - b.game_state.active_color))]

update_castling_permissions(b, new_permissions) ==
    [b EXCEPT !.game_state.castling = new_permissions,
              !.game_state.zobrist_key =
                  Xor(Xor(@, zr_castling(b.game_state.castling)), zr_castling(new_permissions))]

(***************************************************************************)
(* Initialisation from the piece bitboards (board.rs, Board::init)         *)
(***************************************************************************)
init_pieces_per_side_bitboards(b) ==
    [side \in Sides |-> UNION {b.bb_pieces[side][piece] : piece \in PieceTypes}]

\* The loop runs over the piece types in ascending order, white before black,
\* each writing piece_list[square]: the last writer of a square wins.
init_piece_list(b) ==
    [square \in Squares |->
        LET on == {piece \in PieceTypes :
                      square \in b.bb_pieces[WHITE][piece] \cup b.bb_pieces[BLACK][piece]}
        IN  IF on = {} THEN NONE
            ELSE CHOOSE piece \in on : \A q \in on : q <= piece]

RECURSIVE XorAll(_)
XorAll(keys) ==
    IF keys = {} THEN {}
    ELSE LET k == CHOOSE x \in keys : TRUE IN Xor(k, XorAll(keys \ {k}))

init_zobrist_key(b) ==
    LET pieces == {<<side, piece, square>> \in Sides \X PieceTypes \X Squares :
                      square \in b.bb_pieces[side][piece]}
        key0 == XorAll({zr_piece(p[1], p[2], p[3]) : p \in pieces})
    IN  Xor(Xor(Xor(key0, zr_castling(b.game_state.castling)),
                zr_side(b.game_state.active_color)),
            zr_en_passant(b.game_state.en_passant))

RECURSIVE SumPsqt(_, _)
SumPsqt(side, placed) ==
    IF placed = {} THEN 0
    ELSE LET p == CHOOSE x \in placed : TRUE
             s == IF side = WHITE THEN FLIP(p[2]) ELSE p[2]
         IN  PSQT_MG(p[1], s) + SumPsqt(side, placed \ {p})

\* psqt::apply: the fresh sum over all pieces of each side
psqt_apply(b) ==
    LET placed(side) == {<<piece, square>> \in PieceTypes \X Squares :
                            square \in b.bb_pieces[side][piece]}
    IN  (WHITE :> SumPsqt(WHITE, placed(WHITE))) @@ (BLACK :> SumPsqt(BLACK, placed(BLACK)))

init(b) ==
    LET b1 == [b EXCEPT !.bb_side = init_pieces_per_side_bitboards(b)]
        b2 == [b1 EXCEPT !.piece_list = init_piece_list(b1)]
        b3 == [b2 EXCEPT !.game_state.zobrist_key = init_zobrist_key(b2)]
    IN  [b3 EXCEPT !.game_state.psqt = psqt_apply(b3)]

(***************************************************************************)
(* History (board/history.rs)                                              *)
(***************************************************************************)
MAX_GAME_MOVES == 2048
SEARCH_HISTORY_CAPACITY == 128

History_new == [list |-> <<>>, count |-> 0, capacity |-> MAX_GAME_MOVES]

History_new_for_search == [list |-> <<>>, count |-> 0, capacity |-> SEARCH_HISTORY_CAPACITY]

\* list[count] = g; count += 1
History_push(h, g) ==
    [h EXCEPT !.list = SubSeq(h.list, 1, h.count) \o <<g>>,
              !.count = h.count + 1]

History_pop_keep_count(h) ==
    [history |-> h, state |-> h.list[h.count]]

\* count -= 1; list[count]
History_pop(h) ==
    [history |-> [h EXCEPT !.count = h.count - 1, !.list = SubSeq(h.list, 1, h.count - 1)],
     state |-> h.list[h.count]]

History_len(h) == h.count

GameState_new ==
    [active_color |-> WHITE, castling |-> 0, en_passant |-> EP_NONE,
     halfmove_clock |-> 0, fullmove_number |-> 0, zobrist_key |-> {},
     psqt |-> [side \in Sides |-> 0],
     pawn_hash |-> {}, pawn_structure_score |-> 0, game_phase |-> 0, mobility_score |-> 0]

Board_new ==
    [bb_pieces |-> [side \in Sides |-> [piece \in PieceTypes |-> {}]],
     bb_side |-> [side \in Sides |-> {}],
     game_state |-> GameState_new,
     history |-> History_new,
     piece_list |-> [square \in Squares |-> NONE]]

(***************************************************************************)
(* Moves and the move generator (movegen): pseudo-legal moves of the side  *)
(* to move.  A move carries piece, from, to, captured, promoted and the    *)
(* en-passant, double-step and castling flags; captured and promoted are   *)
(* NONE when there is no capture or promotion.                             *)
(***************************************************************************)
Move(piece, from, to, captured, promoted, ep, ds, castling) ==
    [piece |-> piece, from |-> from, to |-> to, captured |-> captured,
     promoted |-> promoted, en_passant |-> ep, double_step |-> ds, castling |-> castling]

\* Move::new(0) / ShortMove::new(0): the empty move
NoMove == Move(KING, 0, 0, KING, KING, FALSE, FALSE, FALSE)

\* ShortMove: from, to and promoted only
to_short_move(m) == [from |-> m.from, to |-> m.to, promoted |-> m.promoted]

NoShortMove == to_short_move(NoMove)

Jumps(sq, deltas) ==
    {Sq(FileOf(sq) + d[1], RankOf(sq) + d[2]) :
        d \in {e \in deltas : OnBoard(FileOf(sq) + e[1], RankOf(sq) + e[2])}}

\* The squares a slider reaches along one direction, the first blocker included
RECURSIVE Ray(_, _, _, _, _)
Ray(f, r, df, dr, occ) ==
    IF ~OnBoard(f + df, r + dr) THEN {}
    ELSE LET t == Sq(f + df, r + dr)
         IN  IF t \in occ THEN {t} ELSE {t} \cup Ray(f + df, r + dr, df, dr, occ)

Slides(sq, dirs, occ) == UNION {Ray(FileOf(sq), RankOf(sq), d[1], d[2], occ) : d \in dirs}

\* Squares a pawn of `side` on sq attacks
PawnAttacks(side, sq) ==
    Jumps(sq, IF side = WHITE THEN {<<-1, 1>>, <<1, 1>>} ELSE {<<-1, -1>>, <<1, -1>>})

\* get_non_slider_attacks / get_slider_attacks / get_pawn_attacks
AttacksFrom(piece, side, sq, occ) ==
    CASE piece = KING -> Jumps(sq, {<<1, 0>>, <<1, 1>>, <<0, 1>>, <<-1, 1>>,
                                    <<-1, 0>>, <<-1, -1>>, <<0, -1>>, <<1, -1>>})
      [] piece = KNIGHT -> Jumps(sq, {<<-2, -1>>, <<-2, 1>>, <<-1, -2>>, <<-1, 2>>,
                                      <<1, -2>>, <<1, 2>>, <<2, -1>>, <<2, 1>>})
      [] piece = ROOK -> Slides(sq, {<<1, 0>>, <<-1, 0>>, <<0, 1>>, <<0, -1>>}, occ)
      [] piece = BISHOP -> Slides(sq, {<<1, 1>>, <<1, -1>>, <<-1, 1>>, <<-1, -1>>}, occ)
      [] piece = QUEEN -> Slides(sq, {<<1, 0>>, <<-1, 0>>, <<0, 1>>, <<0, -1>>,
                                      <<1, 1>>, <<1, -1>>, <<-1, 1>>, <<-1, -1>>}, occ)
      [] piece = PAWN -> PawnAttacks(side, sq)

\* MoveGenerator::square_attacked(board, attacker, square)
square_attacked(b, attacker, square) ==
    \E piece \in PieceTypes : \E from \in b.bb_pieces[attacker][piece] :
        square \in AttacksFrom(piece, attacker, from, occupancy(b))

\* Castling rights: WK = 1, WQ = 2, BK = 4, BQ = 8
CastlingRight(side, kingside) ==
    IF side = WHITE THEN (IF kingside THEN 1 ELSE 2) ELSE (IF kingside THEN 4 ELSE 8)

\* CASTLING_PERMS[square]: the rights that survive a move from or to the square
CASTLING_PERMS(square) ==
    CASE square = 0 -> 13
      [] square = 4 -> 12
      [] square = 7 -> 14
      [] square = 56 -> 7
      [] square = 60 -> 3
      [] square = 63 -> 11
      [] OTHER -> 15

PieceMoves(b, piece, from) ==
    LET side == us(b)
        targets == AttacksFrom(piece, side, from, occupancy(b)) \ b.bb_side[side]
    IN  {Move(piece, from, to, b.piece_list[to], NONE, FALSE, FALSE, FALSE) : to \in targets}

PawnMoves(b, from) ==
    LET side == us(b)
        dr == IF side = WHITE THEN 1 ELSE -1
        f == FileOf(from)
        r == RankOf(from)
        last == IF side = WHITE THEN 7 ELSE 0
        start == IF side = WHITE THEN 1 ELSE 6
        occ == occupancy(b)
        one == IF OnBoard(f, r + dr) /\ Sq(f, r + dr) \notin occ THEN {Sq(f, r + dr)} ELSE {}
        two == IF one # {} /\ r = start /\ Sq(f, r + 2 * dr) \notin occ
               THEN {Sq(f, r + 2 * dr)} ELSE {}
        caps == PawnAttacks(side, from) \cap b.bb_side[1 - side]
        eps == PawnAttacks(side, from) \cap {b.game_state.en_passant}
        Promote(to, captured) ==
            IF RankOf(to) = last
            THEN {Move(PAWN, from, to, captured, p, FALSE, FALSE, FALSE) : p \in {QUEEN, ROOK, BISHOP, KNIGHT}}
            ELSE {Move(PAWN, from, to, captured, NONE, FALSE, FALSE, FALSE)}
    IN  UNION {Promote(to, NONE) : to \in one}
        \cup {Move(PAWN, from, to, NONE, NONE, FALSE, TRUE, FALSE) : to \in two}
        \cup UNION {Promote(to, b.piece_list[to]) : to \in caps}
        \cup {Move(PAWN, from, to, PAWN, NONE, TRUE, FALSE, FALSE) : to \in eps}

CastlingMoves(b) ==
    LET side == us(b)
        r == IF side = WHITE THEN 0 ELSE 7
        ksq == Sq(4, r)
        occ == occupancy(b)
        has(kingside) == BitAnd(b.game_state.castling, CastlingRight(side, kingside)) # 0
        safe(sqs) == \A s \in sqs : ~square_attacked(b, 1 - side, s)
        short == IF /\ has(TRUE)
                    /\ ksq \in b.bb_pieces[side][KING]
                    /\ Sq(7, r) \in b.bb_pieces[side][ROOK]
                    /\ {Sq(5, r), Sq(6, r)} \cap occ = {}
                    /\ safe({ksq, Sq(5, r)})
                 THEN {Move(KING, ksq, Sq(6, r), NONE, NONE, FALSE, FALSE, TRUE)} ELSE {}
        long == IF /\ has(FALSE)
                   /\ ksq \in b.bb_pieces[side][KING]
                   /\ Sq(0, r) \in b.bb_pieces[side][ROOK]
                   /\ {Sq(1, r), Sq(2, r), Sq(3, r)} \cap occ = {}
                   /\ safe({ksq, Sq(3, r)})
                THEN {Move(KING, ksq, Sq(2, r), NONE, NONE, FALSE, FALSE, TRUE)} ELSE {}
    IN  short \cup long

\* The moves in the order of the move list: by piece type, from-square,
\* to-square and promotion piece
RECURSIVE SortMoves(_)
SortMoves(moves) ==
    IF moves = {} THEN <<>>
    ELSE LET key(m) == (m.piece * 64 + m.from) * 512 + m.to * 8 + m.promoted
             first == CHOOSE x \in moves : \A y \in moves : key(x) <= key(y)
         IN  <<first>> \o SortMoves(moves \ {first})

\* MoveGenerator::generate_moves(board, list, MoveType::All): the move list,
\* generated piece type by piece type
generate_moves(b) ==
    SortMoves(UNION {UNION {PieceMoves(b, piece, from) : from \in b.bb_pieces[us(b)][piece]} :
                        piece \in PieceTypes \ {PAWN}}
              \cup UNION {PawnMoves(b, from) : from \in b.bb_pieces[us(b)][PAWN]}
              \cup CastlingMoves(b))

(***************************************************************************)
(* Make / unmake (board/playmove.rs)                                       *)
(***************************************************************************)
\* to ^ 8: the square one rank behind an en-passant destination
XorEight(sq) == IF RankOf(sq) % 2 = 1 THEN sq - 8 ELSE sq + 8

\* The rook's from and to squares of a castling move with the king going to `to`
CastlingRook(to) ==
    CASE to = 6 -> <<7, 5>>
      [] to = 2 -> <<0, 3>>
      [] to = 62 -> <<63, 61>>
      [] to = 58 -> <<56, 59>>

\* The history snapshot taken by make: the prior game state and the move made
Snapshot(gs, m) == [game_state |-> gs, next_move |-> m]

\* unmake: pop the snapshot, take the move back and restore every field
unmake(b) ==
    LET popped == History_pop(b.history)
        snap == popped.state
        m == snap.next_move
        side == snap.game_state.active_color
        opp == 1 - side
        b0 == [b EXCEPT !.history = popped.history]
        b1 == IF m.castling
              THEN move_piece(b0, side, ROOK, CastlingRook(m.to)[2], CastlingRook(m.to)[1])
              ELSE b0
        b2 == IF m.promoted = NONE
              THEN move_piece(b1, side, m.piece, m.to, m.from)
              ELSE put_piece(remove_piece(b1, side, m.promoted, m.to), side, PAWN, m.from)
        b3 == IF m.en_passant
              THEN put_piece(b2, opp, PAWN, XorEight(m.to))
              ELSE IF m.captured # NONE THEN put_piece(b2, opp, m.captured, m.to) ELSE b2
    IN  [b3 EXCEPT !.game_state = snap.game_state]

\* make, step by step; each step works on the Board the previous one left.
\* Push the snapshot, count the half move, clear the en-passant square
make_begin(b, m) ==
    LET pushed == [b EXCEPT !.history = History_push(b.history, Snapshot(b.game_state, m)),
                            !.game_state.halfmove_clock = @ + 1]
    IN  IF b.game_state.en_passant # EP_NONE THEN clear_ep_square(pushed) ELSE pushed

\* Remove the captured piece; a captured rook costs its castling right
make_capture(b, m) ==
    IF m.captured # NONE /\ ~m.en_passant
    THEN LET c == [remove_piece(b, opponent(b), m.captured, m.to)
                      EXCEPT !.game_state.halfmove_clock = 0]
         IN  IF m.captured = ROOK /\ b.game_state.castling > 0
             THEN update_castling_permissions(
                      c, BitAnd(b.game_state.castling, CASTLING_PERMS(m.to)))
             ELSE c
    ELSE b

\* Move the piece; a pawn may promote, capture en passant or set the ep square
make_piece(b, m) ==
    IF m.piece # PAWN
    THEN move_piece(b, us(b), m.piece, m.from, m.to)
    ELSE LET arrived == IF m.promoted = NONE THEN PAWN ELSE m.promoted
             p == [put_piece(remove_piece(b, us(b), PAWN, m.from), us(b), arrived, m.to)
                      EXCEPT !.game_state.halfmove_clock = 0]
         IN  IF m.en_passant THEN remove_piece(p, opponent(b), PAWN, XorEight(m.to))
             ELSE IF m.double_step THEN set_ep_square(p, XorEight(m.to))
             ELSE p

\* A king or rook move costs castling rights; castling also moves the rook
make_castling(b, m) ==
    LET permissions == BitAnd(b.game_state.castling, CASTLING_PERMS(m.from))
        updated == IF (m.piece = KING \/ m.piece = ROOK) /\ b.game_state.castling > 0
                   THEN update_castling_permissions(b, permissions)
                   ELSE b
    IN  IF m.castling
        THEN move_piece(updated, us(b), ROOK, CastlingRook(m.to)[1], CastlingRook(m.to)[2])
        ELSE updated

\* Flip the side to move; the move number goes up after Black's move
make_end(b) ==
    IF us(b) = BLACK
    THEN [swap_side(b) EXCEPT !.game_state.fullmove_number = @ + 1]
    ELSE swap_side(b)

\* The position after the move, before the legality test
make_unchecked(b, m) ==
    make_end(make_castling(make_piece(make_capture(make_begin(b, m), m), m), m))

\* The legality test: the mover's king must not be left attacked; an illegal
\* move is taken back
make_checked(made, side) ==
    LET is_legal == ~square_attacked(made, 1 - side, king_square(made, side))
    IN  [board |-> IF is_legal THEN made ELSE unmake(made), legal |-> is_legal]

\* make(m): [board, legal]
make(b, m) == make_checked(make_unchecked(b, m), us(b))

make_null_move(b) ==
    LET b0 == [b EXCEPT !.history = History_push(b.history, Snapshot(b.game_state, NoMove))]
        b1 == IF b0.game_state.en_passant # EP_NONE THEN clear_ep_square(b0) ELSE b0
    IN  swap_side(b1)

unmake_null_move(b) ==
    LET popped == History_pop(b.history)
    IN  [b EXCEPT !.history = popped.history, !.game_state = popped.state.game_state]

(***************************************************************************)
(* Positions set up on a Board (fen_read followed by Board::init)          *)
(***************************************************************************)
\* placements: a set of <<side, piece, square>>
SetUp(placements, side, castling, ep) ==
    init([Board_new EXCEPT
            !.bb_pieces = [c \in Sides |-> [piece \in PieceTypes |->
                              {sq \in Squares : <<c, piece, sq>> \in placements}]],
            !.game_state.active_color = side,
            !.game_state.castling = castling,
            !.game_state.en_passant = ep,
            !.game_state.fullmove_number = 1])

\* Board::fen_read for the positions used
fen_read(fen) ==
    CASE fen = "r3k3/8/8/8/3p4/8/4P3/R3K2R w KQq - 0 1" ->
            SetUp({<<WHITE, KING, 4>>, <<WHITE, ROOK, 0>>, <<WHITE, ROOK, 7>>,
                   <<WHITE, PAWN, 12>>, <<BLACK, KING, 60>>, <<BLACK, ROOK, 56>>,
                   <<BLACK, PAWN, 27>>}, WHITE, 11, EP_NONE)
      [] fen = "r6k/1P6/8/8/8/8/8/K7 w - - 0 1" ->
            SetUp({<<WHITE, KING, 0>>, <<WHITE, PAWN, 49>>, <<BLACK, KING, 63>>,
                   <<BLACK, ROOK, 56>>}, WHITE, 0, EP_NONE)
      [] fen = "8/8/8/8/1k1pP3/8/8/4K3 b - e3 0 1" ->
            SetUp({<<WHITE, KING, 4>>, <<WHITE, PAWN, 28>>, <<BLACK, KING, 25>>,
                   <<BLACK, PAWN, 27>>}, BLACK, 0, 20)
      [] fen = "8/8/8/8/8/8/2k5/K7 w - - 0 1" ->
            SetUp({<<WHITE, KING, 0>>, <<BLACK, KING, 10>>}, WHITE, 0, EP_NONE)
      [] fen = "8/8/8/7p/7P/2k5/8/K7 w - - 0 1" ->
            SetUp({<<WHITE, KING, 0>>, <<WHITE, PAWN, 31>>, <<BLACK, KING, 18>>,
                   <<BLACK, PAWN, 39>>}, WHITE, 0, EP_NONE)
      [] fen = "k7/8/1K6/8/8/8/8/7R w - - 0 1" ->
            SetUp({<<WHITE, KING, 41>>, <<WHITE, ROOK, 7>>, <<BLACK, KING, 56>>},
                  WHITE, 0, EP_NONE)
      [] fen = "k7/P7/2K5/8/8/8/8/8 w - - 0 1" ->
            SetUp({<<WHITE, KING, 42>>, <<WHITE, PAWN, 48>>, <<BLACK, KING, 56>>},
                  WHITE, 0, EP_NONE)
      [] fen = "5N2/P1P4P/8/8/8/8/8/8 w - - 0 1" ->
            SetUp({<<WHITE, KNIGHT, 61>>, <<WHITE, PAWN, 48>>, <<WHITE, PAWN, 50>>,
                   <<WHITE, PAWN, 55>>}, WHITE, 0, EP_NONE)

(***************************************************************************)
(* The search state before a search starts (search/defs.rs)                *)
(***************************************************************************)
SearchInfo_new ==
    [nodes |-> 0, ply |-> 0, terminate |-> "Nothing", allocated_time |-> 0,
     killer_moves |-> <<>>, history_heuristic |-> <<>>, root_analysis |-> <<>>]

SHARP_MARGIN == 30

SearchParams_new == [quiet |-> FALSE, sharp_margin |-> SHARP_MARGIN]

TTBatch_new == <<>>

ThreadLocalData_new ==
    [local_tt_cache |-> <<>>, tt_batch |-> TTBatch_new, nodes_searched |-> 0,
     best_move_found |-> <<>>]

searchVars ==
    <<stack, ret, search_info, search_params, thread_local_data, tt, tt_enabled, env, settings>>

\* EngineOptionDefaults (engine/defs.rs)
SHARP_MARGIN_DEFAULT == 30
SHARP_MARGIN_MIN == 0
SHARP_MARGIN_MAX == 100

\* The Settings the engine starts with
Settings_new ==
    [threads |-> 1, quiet |-> FALSE, tt_size |-> 32, sharp_margin |-> SHARP_MARGIN_DEFAULT]

NoSearch ==
    /\ stack = <<>>
    /\ ret = [score |-> 0, pv |-> <<>>, good_replies |-> 0, reply |-> <<>>,
              reply_sequence |-> <<>>]
    /\ search_info = SearchInfo_new
    /\ search_params = SearchParams_new
    /\ thread_local_data = ThreadLocalData_new
    /\ tt = <<>>
    /\ tt_enabled = TRUE
    /\ env = [elapsed |-> 0]
    /\ settings = Settings_new

(***************************************************************************)
(* Specification SpecBoard: the incremental update functions of board.rs   *)
(* called in any order on an initialised Board.                            *)
(***************************************************************************)
OpSquares == {8, 9, 48}
OpPieces == {ROOK, PAWN}
OpEpSquares == {16, 40}
OpCastling == {0, 3, 12, 15}

BoardStart ==
    SetUp({<<WHITE, ROOK, 8>>, <<BLACK, PAWN, 48>>}, WHITE, 15, EP_NONE)

InitBoard ==
    /\ board = BoardStart
    /\ trace = [op |-> "init"]
    /\ NoSearch

PutPiece ==
    \E side \in Sides, piece \in OpPieces, square \in OpSquares :
        /\ square \notin occupancy(board)
        /\ board' = put_piece(board, side, piece, square)
        /\ trace' = [op |-> "put_piece"]
        /\ UNCHANGED searchVars

RemovePiece ==
    \E side \in Sides, piece \in OpPieces, square \in OpSquares :
        /\ square \in board.bb_pieces[side][piece]
        /\ board' = remove_piece(board, side, piece, square)
        /\ trace' = [op |-> "remove_piece"]
        /\ UNCHANGED searchVars

MovePiece ==
    \E side \in Sides, piece \in OpPieces, from \in OpSquares, to \in OpSquares :
        /\ from \in board.bb_pieces[side][piece]
        /\ to \notin occupancy(board) \/ to = from
        /\ board' = move_piece(board, side, piece, from, to)
        /\ trace' = [op |-> "move_piece"]
        /\ UNCHANGED searchVars

SetEpSquare ==
    \E square \in OpEpSquares :
        /\ board' = set_ep_square(board, square)
        /\ trace' = [op |-> "set_ep_square"]
        /\ UNCHANGED searchVars

ClearEpSquare ==
    /\ board' = clear_ep_square(board)
    /\ trace' = [op |-> "clear_ep_square"]
    /\ UNCHANGED searchVars

SwapSide ==
    /\ board' = swap_side(board)
    /\ trace' = [op |-> "swap_side"]
    /\ UNCHANGED searchVars

UpdateCastlingPermissions ==
    \E new_permissions \in OpCastling :
        /\ board' = update_castling_permissions(board, new_permissions)
        /\ trace' = [op |-> "update_castling_permissions"]
        /\ UNCHANGED searchVars

NextBoard ==
    \/ PutPiece
    \/ RemovePiece
    \/ MovePiece
    \/ SetEpSquare
    \/ ClearEpSquare
    \/ SwapSide
    \/ UpdateCastlingPermissions

SpecBoard == InitBoard /\ [][NextBoard]_vars

\* C2: after any sequence of put_piece (onto an empty square), remove_piece (of
\* a present piece), move_piece, set_ep_square, clear_ep_square, swap_side and
\* update_castling_permissions on an initialised Board, the incrementally
\* maintained game_state.zobrist_key equals the key init_zobrist_key()
\* recomputes from the pieces, castling rights, side to move and ep square.
C2_ZobristConsistent == board.game_state.zobrist_key = init_zobrist_key(board)

\* a piece has just been moved, and the position differs from the start in its
\* pieces, side to move, castling rights and en-passant square
C2_Witness ==
    /\ trace.op = "move_piece"
    /\ board.bb_pieces # BoardStart.bb_pieces
    /\ board.game_state.active_color = BLACK
    /\ board.game_state.castling = 3
    /\ board.game_state.en_passant = 40
    /\ board.game_state.zobrist_key # BoardStart.game_state.zobrist_key

(***************************************************************************)
(* Specification SpecMake: make / unmake sequences from positions set up   *)
(* on a Board.  trace.saved holds the positions before each move still on  *)
(* the history stack, trace.expect the position a take-back must restore.  *)
(***************************************************************************)
MaxMakeDepth == 2

MakePositions ==
    {fen_read("r3k3/8/8/8/3p4/8/4P3/R3K2R w KQq - 0 1"),
     fen_read("r6k/1P6/8/8/8/8/8/K7 w - - 0 1"),
     fen_read("8/8/8/8/1k1pP3/8/8/4K3 b - e3 0 1")}

InitMake ==
    /\ board \in MakePositions
    /\ trace = [op |-> "init", legal |-> TRUE, move |-> NoMove, expect |-> board, saved |-> <<>>]
    /\ NoSearch

\* make(m) for a pseudo-legal move m of the position
MakeMove ==
    /\ History_len(board.history) < MaxMakeDepth
    /\ \E i \in 1..Len(generate_moves(board)) :
          LET m == generate_moves(board)[i]
              r == make(board, m)
          IN  /\ board' = r.board
              /\ trace' = [op |-> "make", legal |-> r.legal, move |-> m, expect |-> board,
                           saved |-> IF r.legal THEN Append(trace.saved, board)
                                     ELSE trace.saved]
    /\ UNCHANGED searchVars

\* unmake() of the last move made
UnmakeMove ==
    /\ History_len(board.history) > 0
    /\ board' = unmake(board)
    /\ trace' = [op |-> "unmake", legal |-> TRUE, move |-> NoMove,
                 expect |-> trace.saved[Len(trace.saved)],
                 saved |-> SubSeq(trace.saved, 1, Len(trace.saved) - 1)]
    /\ UNCHANGED searchVars

NextMake == MakeMove \/ UnmakeMove

SpecMake == InitMake /\ [][NextMake]_vars

\* Field by field: the 12 piece bitboards, both side masks, the square->piece
\* array, every game_state field and the history length
SamePosition(a, b) ==
    /\ \A side \in Sides : \A piece \in PieceTypes :
          a.bb_pieces[side][piece] = b.bb_pieces[side][piece]
    /\ \A side \in Sides : a.bb_side[side] = b.bb_side[side]
    /\ \A square \in Squares : a.piece_list[square] = b.piece_list[square]
    /\ a.game_state = b.game_state
    /\ History_len(a.history) = History_len(b.history)

\* C1: if make(m) returned true, a following unmake() restores the position
\* exactly (piece bitboards, side masks, piece list, every game_state field,
\* history length); if make(m) returned false the Board is already identical
\* to the position before the call.
C1_MakeUnmakeRoundTrip ==
    /\ trace.op = "unmake" => SamePosition(board, trace.expect)
    /\ (trace.op = "make" /\ ~trace.legal) => SamePosition(board, trace.expect)

\* a legal capture made on top of another move has been taken back
C1_Witness ==
    /\ trace.op = "unmake"
    /\ History_len(board.history) = 1
    /\ board.game_state.halfmove_clock > 0
    /\ board.bb_side[BLACK] # {}
    /\ SamePosition(board, trace.expect)

\* C3: for every square s, piece_list[s] = k (k # NONE) iff exactly one of
\* bb_pieces[WHITE][k], bb_pieces[BLACK][k] has bit s and no other piece
\* bitboard has it; piece_list[s] = NONE iff no bitboard has bit s; the two
\* side masks are disjoint.
C3_PieceListConsistent ==
    /\ \A s \in Squares :
          LET holders == {<<side, piece>> \in Sides \X PieceTypes :
                             s \in board.bb_pieces[side][piece]}
          IN  /\ \A k \in PieceTypes :
                    board.piece_list[s] = k <=>
                        (Cardinality(holders) = 1 /\ \E side \in Sides : <<side, k>> \in holders)
              /\ board.piece_list[s] = NONE <=> holders = {}
    /\ board.bb_side[WHITE] \cap board.bb_side[BLACK] = {}

\* a promotion with capture has been made: the promoted piece stands where the
\* captured rook stood
C3_Witness ==
    /\ trace.op = "make"
    /\ trace.legal
    /\ trace.move.promoted = QUEEN
    /\ trace.move.captured = ROOK
    /\ board.piece_list[trace.move.to] = QUEEN
    /\ board.piece_list[trace.move.from] = NONE

\* C4: bb_side[c] is the OR of the six bb_pieces[c][kind] for each colour c,
\* and occupancy() is the union of all 12 piece bitboards.
C4_SideMaskConsistent ==
    /\ \A c \in Sides :
          board.bb_side[c] = UNION {board.bb_pieces[c][kind] : kind \in PieceTypes}
    /\ occupancy(board) =
          UNION {board.bb_pieces[c][kind] : c \in Sides, kind \in PieceTypes}

\* an en-passant capture has been made: the captured pawn left its side's mask
C4_Witness ==
    /\ trace.op = "make"
    /\ trace.legal
    /\ trace.move.en_passant
    /\ XorEight(trace.move.to) \notin occupancy(board)
    /\ trace.move.to \in board.bb_side[1 - us(board)]

\* C5: game_state.psqt[side] equals the fresh sum over all pieces of the side
\* of PSQT_MG[piece][square], the square flipped for White, unflipped for Black.
C5_PsqtConsistent ==
    \A side \in Sides : board.game_state.psqt[side] = psqt_apply(board)[side]

\* a castling move was made and taken back after a reply, and the accumulators
\* of the position differ from those of the position set up
C5_Witness ==
    /\ trace.op = "unmake"
    /\ History_len(board.history) = 1
    /\ board.history.list[1].next_move.castling
    /\ board.game_state.psqt # fen_read("r3k3/8/8/8/3p4/8/4P3/R3K2R w KQq - 0 1").game_state.psqt

(***************************************************************************)
(* Search constants (search/defs.rs, search/time.rs)                       *)
(***************************************************************************)
INF == 25000
CHECKMATE == 24000
CHECKMATE_THRESHOLD == 23900
STALEMATE == 0
CHECK_TERMINATION == 2047
MAX_KILLER_MOVES == 2
NULL_MOVE_REDUCTION == 3
LMR_REDUCTION == 1
LMR_MOVE_THRESHOLD == 4
LMR_LATE_THRESHOLD == 8
LMR_LATE_REDUCTION == 1
LMR_MIN_DEPTH == 4
MULTICUT_DEPTH == 4
MULTICUT_REDUCTION == 3
MULTICUT_CUTOFFS == 2
MULTICUT_MOVES == 4
TT_BATCH_SIZE == 16
MAX_PLY == 125
CRITICAL_TIME == 1000
VERY_LOW_TIME == 500
LOW_TIME == 2000
OK_TIME == 5000

Min(a, b) == IF a < b THEN a ELSE b
Max(a, b) == IF a > b THEN a ELSE b

(***************************************************************************)
(* Time management (search/time.rs)                                        *)
(***************************************************************************)
\* The overshoot factor in tenths; the match arms are tried in this order
overshoot_factor(allocated) ==
    IF allocated <= CRITICAL_TIME THEN 10
    ELSE IF allocated <= VERY_LOW_TIME THEN 11
    ELSE IF allocated <= LOW_TIME THEN 12
    ELSE IF allocated <= OK_TIME THEN 13
    ELSE 15

\* (overshoot_factor * allocated as f64).round() as u128

\* out_of_time with the timer reading `elapsed`
out_of_time(si, elapsed) ==
    elapsed >= (overshoot_factor(si.allocated_time) * si.allocated_time + 5) \div 10

interrupted(si) == si.terminate # "Nothing"

time_up(si, elapsed) == out_of_time(si, elapsed) \/ interrupted(si)

\* The timer readings a call may see: the timer never runs backwards
Readings == {t \in {0, 600} : t >= env.elapsed}

\* Search::check_termination: take a pending command from the control
\* channel, then stop the search when its time is used up
check_termination(si, cmd, elapsed) ==
    IF cmd = "Stop" \/ cmd = "Quit" THEN [si EXCEPT !.terminate = cmd]
    ELSE IF out_of_time(si, elapsed) THEN [si EXCEPT !.terminate = "Stop"]
    ELSE si

ControlCommands == {"Nothing", "Stop", "Quit"}

(***************************************************************************)
(* Evaluation, draw detection (evaluation, search utilities)               *)
(***************************************************************************)
\* evaluation::evaluate_position: the piece-square term of the evaluation,
\* from the side to move's point of view
evaluate_position(b) ==
    IF us(b) = WHITE
    THEN b.game_state.psqt[WHITE] - b.game_state.psqt[BLACK]
    ELSE b.game_state.psqt[BLACK] - b.game_state.psqt[WHITE]

\* Search::is_repetition: earlier positions of the history with the current
\* key, looking back to the last irreversible move
RECURSIVE CountRepetitions(_, _)
CountRepetitions(b, i) ==
    IF i < 0 THEN 0
    ELSE LET historic == b.history.list[i + 1].game_state
         IN  (IF historic.zobrist_key = b.game_state.zobrist_key THEN 1 ELSE 0)
             + (IF historic.halfmove_clock = 0 THEN 0 ELSE CountRepetitions(b, i - 1))

is_repetition(b) == CountRepetitions(b, History_len(b.history) - 1)

\* Search::is_insufficient_material: no pawn, rook or queen and at most one
\* minor piece on the board
is_insufficient_material(b) ==
    /\ \A side \in Sides : \A piece \in {PAWN, ROOK, QUEEN} : b.bb_pieces[side][piece] = {}
    /\ Cardinality(UNION {b.bb_pieces[side][piece] : side \in Sides,
                                                      piece \in {BISHOP, KNIGHT}}) <= 1

\* the penalty that forgets the repetition count
repetition_penalty_once(current_eval, repetition_count) ==
    IF current_eval >= 300 THEN -150
    ELSE IF current_eval >= 150 THEN -75
    ELSE IF current_eval >= 50 THEN -25
    ELSE IF current_eval <= -150 THEN 0
    ELSE -10

\* The penalty returned for a repeated position
repetition_penalty(current_eval, repetition_count) ==
    (IF current_eval >= 300 THEN -150
     ELSE IF current_eval >= 150 THEN -75
     ELSE IF current_eval >= 50 THEN -25
     ELSE IF current_eval <= -150 THEN 0
     ELSE -10) * (repetition_count + 1)

(***************************************************************************)
(* Transposition table, local cache and batch (engine/transposition.rs,    *)
(* search/defs.rs)                                                         *)
(***************************************************************************)
\* SearchData::create: mate scores are stored relative to the node
SearchData_create(depth, ply, flag, value, best_move) ==
    [depth |-> depth, flag |-> flag,
     value |-> IF value > CHECKMATE_THRESHOLD THEN value + ply
               ELSE IF value < -CHECKMATE_THRESHOLD THEN value - ply
               ELSE value,
     best_move |-> best_move]

\* SearchData::get: the value (an Option, here a sequence of at most one
\* element) and the best move
SearchData_get(data, depth, ply, alpha, beta) ==
    LET exact == IF data.value > CHECKMATE_THRESHOLD THEN data.value - ply
                 ELSE IF data.value < -CHECKMATE_THRESHOLD THEN data.value + ply
                 ELSE data.value
    IN  [value |-> IF data.depth < depth THEN <<>>
                   ELSE IF data.flag = "Exact" THEN <<exact>>
                   ELSE IF data.flag = "Alpha" /\ data.value <= alpha THEN <<alpha>>
                   ELSE IF data.flag = "Beta" /\ data.value >= beta THEN <<beta>>
                   ELSE <<>>,
         best_move |-> data.best_move]

\* The table is the sequence of the entries inserted, oldest first.
\* TT::probe (an Option): of the entries of the key, the deepest, and of those
\* the newest
TT_probe(table, key) ==
    LET hits == {i \in 1..Len(table) : table[i].zobrist_key = key}
        best == CHOOSE i \in hits : \A k \in hits :
                    \/ table[k].data.depth < table[i].data.depth
                    \/ (table[k].data.depth = table[i].data.depth /\ k <= i)
    IN  IF hits = {} THEN <<>> ELSE <<table[best].data>>

\* LocalTTCache::probe (an Option) / insert: the cache maps keys to entries
LocalTTCache_probe(cache, key) ==
    IF \E i \in 1..Len(cache) : cache[i].zobrist_key = key
    THEN <<cache[CHOOSE i \in 1..Len(cache) : cache[i].zobrist_key = key].data>>
    ELSE <<>>

LocalTTCache_insert(cache, key, data) ==
    SelectSeq(cache, LAMBDA e : e.zobrist_key # key)
        \o <<[zobrist_key |-> key, data |-> data]>>

TTBatch_add(batch, zobrist_key, data) ==
    Append(batch, [zobrist_key |-> zobrist_key, data |-> data])

TTBatch_is_full_late(batch) == Len(batch) > TT_BATCH_SIZE

TTBatch_is_full(batch) == Len(batch) >= TT_BATCH_SIZE

TTBatch_len(batch) == Len(batch)

\* Search::flush_tt_batch: [tt, tt_batch] afterwards; every pending update is
\* inserted (appended to the table) in order under the write lock, then the
\* batch is cleared
flush_tt_batch(table, batch) ==
    IF TTBatch_len(batch) > 0
    THEN [tt |-> table \o batch, tt_batch |-> <<>>]
    ELSE [tt |-> table, tt_batch |-> batch]

(***************************************************************************)
(* Move ordering (search utilities): score_moves and pick_move             *)
(***************************************************************************)
\* killer_moves[ply] and history_heuristic[side][piece][to]; the tables are
\* kept sparse, an absent entry is the initial one
killers_at(si, ply) ==
    IF ply \in DOMAIN si.killer_moves THEN si.killer_moves[ply]
    ELSE [slot \in 1..MAX_KILLER_MOVES |-> NoShortMove]

history_score(si, side, piece, to) ==
    IF <<side, piece, to>> \in DOMAIN si.history_heuristic
    THEN si.history_heuristic[<<side, piece, to>>] ELSE 0

\* The sort value of a move: the TT move first, then captures by MVV-LVA
\* (victim value * 10 - attacker value), then killers, then history
move_sort_value(m, tt_move, si, b, ply) ==
    IF to_short_move(m) = tt_move THEN 200000
    ELSE IF m.captured # NONE THEN 100000 + PieceValue(m.captured) * 10 - PieceValue(m.piece)
    ELSE IF killers_at(si, ply)[1] = to_short_move(m) THEN 90000
    ELSE IF killers_at(si, ply)[2] = to_short_move(m) THEN 80000
    ELSE Min(history_score(si, us(b), m.piece, m.to), 70000)

\* Search::score_moves: the move list with sort values
score_moves(moves, tt_move, si, b) ==
    [k \in 1..Len(moves) |->
        [mv |-> moves[k], score |-> move_sort_value(moves[k], tt_move, si, b, si.ply)]]

\* Search::pick_move(list, i): swap the best-scored of the moves i.. to index i
\* (indices count from 0 as in the code)
pick_move(ml, i) ==
    LET rest == (i + 1)..Len(ml)
        best == CHOOSE k \in rest : \A n \in rest :
                    ml[n].score < ml[k].score \/ (ml[n].score = ml[k].score /\ k <= n)
    IN  IF rest = {} THEN ml
        ELSE [ml EXCEPT ![i + 1] = ml[best], ![best] = ml[i + 1]]

RECURSIVE pick_all(_, _)
pick_all(ml, i) == IF i >= Len(ml) THEN ml ELSE pick_all(pick_move(ml, i), i + 1)

(***************************************************************************)
(* Quiescence search (search utilities): the steps of alpha_beta's entry   *)
(* for capture moves only, with a stand-pat cutoff.  It runs to completion *)
(* within the step of the alpha_beta node that calls it; cmd and elapsed   *)
(* are what its termination probes read.  The result is [score, si].       *)
(***************************************************************************)
RECURSIVE quiescence(_, _, _, _, _, _)
RECURSIVE quiescence_loop(_, _, _, _, _, _, _, _)

\* after a capture was searched and taken back: fail high, or go on with the
\* next capture
quiescence_next(b, alpha, beta, ml, i, child, cmd, elapsed) ==
    IF -child.score >= beta
    THEN [score |-> beta, si |-> [child.si EXCEPT !.ply = @ - 1]]
    ELSE quiescence_loop(b, Max(alpha, -child.score), beta, ml, i + 1,
                         [child.si EXCEPT !.ply = @ - 1], cmd, elapsed)

quiescence_loop(b, alpha, beta, ml, i, si, cmd, elapsed) ==
    IF i > Len(ml) THEN [score |-> alpha, si |-> si]
    ELSE IF ~make(b, ml[i].mv).legal
    THEN quiescence_loop(b, alpha, beta, ml, i + 1, si, cmd, elapsed)
    ELSE quiescence_next(b, alpha, beta, ml, i,
                         quiescence(make(b, ml[i].mv).board, -beta, -alpha,
                                    [si EXCEPT !.ply = @ + 1], cmd, elapsed),
                         cmd, elapsed)

\* the node counted: stand pat, then the captures
quiescence_stand_pat(b, alpha, beta, si, cmd, elapsed) ==
    IF evaluate_position(b) >= beta THEN [score |-> beta, si |-> si]
    ELSE quiescence_loop(b, Max(alpha, evaluate_position(b)), beta,
                         pick_all(score_moves(SelectSeq(generate_moves(b),
                                                       LAMBDA m : m.captured # NONE),
                                              NoShortMove, si, b), 0),
                         1, si, cmd, elapsed)

\* the probe, the node counted
quiescence(b, alpha, beta, si, cmd, elapsed) ==
    LET probed == IF BitAnd(si.nodes, CHECK_TERMINATION) = 0
                  THEN check_termination(si, cmd, elapsed) ELSE si
    IN  IF probed.terminate # "Nothing" THEN [score |-> 0, si |-> probed]
        ELSE IF probed.ply >= MAX_PLY THEN [score |-> evaluate_position(b), si |-> probed]
        ELSE quiescence_stand_pat(b, alpha, beta, [probed EXCEPT !.nodes = @ + 1],
                                  cmd, elapsed)

(***************************************************************************)
(* Search::alpha_beta (search/alpha_beta.rs) as a machine on an explicit   *)
(* call stack.  A step runs the top invocation from where it stands to its *)
(* next call or to its return.  The steps are functions on the record w of *)
(* everything a step may change; `ret` carries the value and the pv        *)
(* out-parameter of the invocation that returned last.                     *)
(***************************************************************************)
World ==
    [board |-> board, stack |-> stack, ret |-> ret, search_info |-> search_info,
     thread_local_data |-> thread_local_data, tt |-> tt, env |-> env, trace |-> trace]

Becomes(w) ==
    /\ board' = w.board
    /\ stack' = w.stack
    /\ ret' = w.ret
    /\ search_info' = w.search_info
    /\ thread_local_data' = w.thread_local_data
    /\ tt' = w.tt
    /\ env' = w.env
    /\ trace' = w.trace
    /\ UNCHANGED <<search_params, tt_enabled, settings>>

\* The invocation that is running
Top(w) == w.stack[Len(w.stack)]

\* The locals of an alpha_beta invocation; depth0 and alpha0 keep the arguments
ABFrame(depth, alpha, beta, pv) ==
    [fn |-> "alpha_beta", pc |-> "entry", depth |-> depth, alpha |-> alpha, beta |-> beta,
     pv |-> pv, depth0 |-> depth, alpha0 |-> alpha, is_root |-> FALSE, is_check |-> FALSE,
     tt_move |-> NoShortMove, move_list |-> <<>>, i |-> 0, j |-> 0, cutoffs |-> 0,
     legal_moves_found |-> 0, best_eval_score |-> -INF, hash_flag |-> "Alpha",
     best_move |-> NoShortMove, current_move |-> NoMove, score |-> 0, tmp_pv |-> <<>>,
     root_analysis |-> <<>>]

\* What the step did: op names the path, frame is the invocation as it stood
\* at the end of the step, peak the length tt_batch reached within the step
Note(w, op) == [w EXCEPT !.trace = [op |-> op, frame |-> Top(w), peak |-> 0]]

\* return score: the invocation leaves the stack
Return(w, op, score) ==
    [w EXCEPT !.stack = SubSeq(w.stack, 1, Len(w.stack) - 1),
              !.ret.score = score,
              !.ret.pv = Top(w).pv,
              !.trace = [op |-> op, frame |-> Top(w), peak |-> 0]]

\* call: the caller waits at pc for the callee to return
Call(w, op, pc, callee) ==
    [w EXCEPT !.stack = Append([w.stack EXCEPT ![Len(w.stack)].pc = pc], callee),
              !.trace = [op |-> op, frame |-> [Top(w) EXCEPT !.pc = pc], peak |-> 0]]

\* lines 164-208: generate and score the moves, then multi-cut or the main loop
ab_begin_moves(w) ==
    Note([w EXCEPT
            !.stack[Len(w.stack)].move_list =
                score_moves(generate_moves(w.board), Top(w).tt_move, w.search_info, w.board),
            !.stack[Len(w.stack)].pc =
                IF ~Top(w).is_root /\ Top(w).depth >= MULTICUT_DEPTH /\ ~Top(w).is_check
                THEN "multicut" ELSE "loop"],
         "begin_moves")

\* lines 140-153: the null move
ab_null_move(w) ==
    IF /\ ~Top(w).is_root
       /\ Top(w).depth > NULL_MOVE_REDUCTION
       /\ ~Top(w).is_check
       /\ ~is_insufficient_material(w.board)
    THEN Call([w EXCEPT !.board = make_null_move(w.board), !.search_info.ply = @ + 1],
              "null_move_call", "null_ret",
              ABFrame(Top(w).depth - 1 - NULL_MOVE_REDUCTION, -Top(w).beta, -Top(w).beta + 1,
                      <<>>))
    ELSE ab_begin_moves(w)

\* lines 104-138: the probe of the local cache, then of the global table
ab_tt_probe(w) ==
    LET key == w.board.game_state.zobrist_key
        local == LocalTTCache_probe(w.thread_local_data.local_tt_cache, key)
        global == TT_probe(w.tt, key)
        data == IF ~tt_enabled THEN <<>> ELSE IF local # <<>> THEN local ELSE global
        tt_result == IF data = <<>> THEN [value |-> <<>>, best_move |-> NoShortMove]
                     ELSE SearchData_get(data[1], Top(w).depth, w.search_info.ply,
                                         Top(w).alpha, Top(w).beta)
        probed == [w EXCEPT
                     !.thread_local_data.local_tt_cache =
                         IF tt_enabled /\ local = <<>> /\ global # <<>>
                         THEN LocalTTCache_insert(@, key, global[1]) ELSE @,
                     !.stack[Len(w.stack)].tt_move = tt_result.best_move]
    IN  IF tt_result.value # <<>> /\ ~Top(w).is_root
        THEN Return(probed, "tt_return", tt_result.value[1])
        ELSE ab_null_move(probed)

\* lines 82-102: a repeated position returns a penalty
ab_repetition(w) ==
    IF ~Top(w).is_root /\ is_repetition(w.board) > 0
    THEN Return(w, "repetition_return",
                repetition_penalty(evaluate_position(w.board), is_repetition(w.board)))
    ELSE ab_tt_probe(w)

\* lines 76-80: the horizon
ab_horizon(w, q) ==
    IF Top(w).depth <= 0
    THEN Return([w EXCEPT !.search_info = q.si], "quiescence_return", q.score)
    ELSE ab_repetition([w EXCEPT !.search_info.nodes = @ + 1])

\* ab_entered without the return of a terminated search
ab_entered_past_max_ply(w, is_check, cmd, now, before) ==
    IF w.search_info.terminate # "Nothing"
    THEN Return(w, IF before # "Nothing" THEN "terminated_return" ELSE "probe_terminated_return",
                0)
    ELSE IF w.search_info.ply > MAX_PLY
    THEN Return(w, "max_ply_return", evaluate_position(w.board))
    ELSE ab_horizon([w EXCEPT !.stack[Len(w.stack)].is_check = is_check,
                              !.stack[Len(w.stack)].depth =
                                  IF is_check THEN @ + 1 ELSE @],
                    quiescence(w.board, Top(w).alpha, Top(w).beta, w.search_info, cmd, now))

ab_entered_keeps_searching(w, is_check, cmd, now, before) ==
    IF w.search_info.ply >= MAX_PLY
    THEN Return(w, "max_ply_return", evaluate_position(w.board))
    ELSE ab_horizon([w EXCEPT !.stack[Len(w.stack)].is_check = is_check,
                              !.stack[Len(w.stack)].depth =
                                  IF is_check THEN @ + 1 ELSE @],
                    quiescence(w.board, Top(w).alpha, Top(w).beta, w.search_info, cmd, now))

\* lines 58-74: terminated, MAX_PLY, check extension.  `before` is the flag as
\* it stood when the node was entered; it only names the path taken
ab_entered(w, is_check, cmd, now, before) ==
    IF w.search_info.terminate # "Nothing"
    THEN Return(w, IF before # "Nothing" THEN "terminated_return" ELSE "probe_terminated_return",
                0)
    ELSE IF w.search_info.ply >= MAX_PLY
    THEN Return(w, "max_ply_return", evaluate_position(w.board))
    ELSE ab_horizon([w EXCEPT !.stack[Len(w.stack)].is_check = is_check,
                              !.stack[Len(w.stack)].depth =
                                  IF is_check THEN @ + 1 ELSE @],
                    quiescence(w.board, Top(w).alpha, Top(w).beta, w.search_info, cmd, now))

\* lines 48-56: the node enters; every 2048 nodes it probes for termination.
\* cmd is the command waiting in the control channel, now the timer reading
ab_enter(w, cmd, now) ==
    LET probe == BitAnd(w.search_info.nodes, CHECK_TERMINATION) = 0
    IN  ab_entered(
            [w EXCEPT !.stack[Len(w.stack)].is_root = (w.search_info.ply = 0),
                      !.thread_local_data.nodes_searched = @ + 1,
                      !.search_info =
                          IF probe THEN check_termination(w.search_info, cmd, now) ELSE @,
                      !.env.elapsed = now],
            square_attacked(w.board, opponent(w.board), king_square(w.board, us(w.board))),
            cmd, now, w.search_info.terminate)

\* lines 154-162: the null-move search returned
ab_null_return(w) ==
    IF -w.ret.score >= Top(w).beta
    THEN Return([w EXCEPT !.board = unmake_null_move(w.board), !.search_info.ply = @ - 1],
                "null_move_cutoff", Top(w).beta)
    ELSE ab_begin_moves([w EXCEPT !.board = unmake_null_move(w.board),
                                  !.search_info.ply = @ - 1])

\* lines 170-184: the next multi-cut candidate, j counting from 0
ab_multicut_next(w) ==
    LET ml == pick_move(Top(w).move_list, Top(w).j)
        made == make(w.board, ml[Top(w).j + 1].mv)
    IN  IF Top(w).j >= Min(MULTICUT_MOVES, Len(Top(w).move_list))
        THEN Note([w EXCEPT !.stack[Len(w.stack)].pc = "loop"], "multicut_done")
        ELSE IF ~made.legal
        THEN Note([w EXCEPT !.stack[Len(w.stack)].move_list = ml,
                            !.stack[Len(w.stack)].j = @ + 1], "multicut_illegal")
        ELSE Call([w EXCEPT !.board = made.board,
                            !.search_info.ply = @ + 1,
                            !.stack[Len(w.stack)].move_list = ml],
                  "multicut_call", "multicut_ret",
                  ABFrame(Top(w).depth - 1 - MULTICUT_REDUCTION, -Top(w).beta,
                          -Top(w).beta + 1, <<>>))

\* lines 185-196: a multi-cut search returned
ab_multicut_return(w) ==
    IF -w.ret.score >= Top(w).beta /\ Top(w).cutoffs + 1 >= MULTICUT_CUTOFFS
    THEN Return([w EXCEPT !.board = unmake(w.board), !.search_info.ply = @ - 1],
                "multicut_cutoff", Top(w).beta)
    ELSE Note([w EXCEPT !.board = unmake(w.board),
                        !.search_info.ply = @ - 1,
                        !.stack[Len(w.stack)].cutoffs =
                            IF -w.ret.score >= Top(w).beta THEN @ + 1 ELSE @,
                        !.stack[Len(w.stack)].j = @ + 1,
                        !.stack[Len(w.stack)].pc = "multicut"], "multicut_next")

\* lines 228-232; captured() and promoted() are compared with 0
is_quiet_move(m) == m.captured = 0 /\ m.promoted = 0 /\ ~m.castling /\ ~m.en_passant

\* lines 235-247 on the Board after current_move was made: the move is made
\* once more and one move is taken back
gives_check_probe(b, m) ==
    [board |-> unmake(make(b, m).board),
     gives_check |-> square_attacked(make(b, m).board, us(make(b, m).board),
                                     king_square(make(b, m).board, opponent(make(b, m).board)))]

\* lines 250-275, with the Board as it is after the check probe
lmr_applies(f, si, b, m, gives_check) ==
    /\ f.depth >= LMR_MIN_DEPTH
    /\ ~f.is_check
    /\ is_quiet_move(m)
    /\ ~gives_check
    /\ ~(si.ply < MAX_PLY /\ \E slot \in 1..MAX_KILLER_MOVES :
                                 killers_at(si, si.ply)[slot] = to_short_move(m))
    /\ ~(history_score(si, us(b), m.piece, m.to) >= 100)
    /\ f.legal_moves_found >= LMR_MOVE_THRESHOLD

\* lines 280-291: the depth of the reduced search
reduced_depth(f) ==
    LET reduction == IF f.legal_moves_found > LMR_LATE_THRESHOLD
                     THEN LMR_LATE_REDUCTION ELSE LMR_REDUCTION
        safe_reduction == IF f.depth <= 6 THEN Min(reduction, 1) ELSE reduction
    IN  Max(1, f.depth - 1 - safe_reduction)

\* lines 277-314: the first search of the move made
ab_first_search(w, gives_check) ==
    IF Top(w).legal_moves_found > 1
    THEN IF lmr_applies(Top(w), w.search_info, w.board, Top(w).current_move, gives_check)
         THEN Call(w, "lmr_call", "lmr_ret",
                   ABFrame(reduced_depth(Top(w)), -Top(w).alpha - 1, -Top(w).alpha, <<>>))
         ELSE Call(w, "pvs_call", "pvs_ret",
                   ABFrame(Top(w).depth - 1, -Top(w).alpha - 1, -Top(w).alpha, <<>>))
    ELSE Call(w, "full_call", "full_ret",
              ABFrame(Top(w).depth - 1, -Top(w).beta, -Top(w).alpha, <<>>))

\* lines 215-247: pick and make the move; a quiet move is probed for check
ab_loop_made(w, ml, made) ==
    LET m == ml[Top(w).i + 1].mv
        entered == [w EXCEPT !.board = IF is_quiet_move(m)
                                       THEN gives_check_probe(made.board, m).board
                                       ELSE made.board,
                             !.search_info.ply = @ + 1,
                             !.stack[Len(w.stack)].move_list = ml,
                             !.stack[Len(w.stack)].current_move = m,
                             !.stack[Len(w.stack)].legal_moves_found = @ + 1,
                             !.stack[Len(w.stack)].tmp_pv = <<>>]
    IN  IF ~made.legal
        THEN Note([w EXCEPT !.stack[Len(w.stack)].move_list = ml,
                            !.stack[Len(w.stack)].i = @ + 1], "illegal_move")
        ELSE ab_first_search(entered,
                             is_quiet_move(m) /\ gives_check_probe(made.board, m).gives_check)

\* lines 210-213: the head of the main loop, i counting from 0
ab_loop_next(w, now) ==
    IF Top(w).i >= Len(Top(w).move_list)
    THEN Note([w EXCEPT !.stack[Len(w.stack)].pc = "after_loop"], "loop_end")
    ELSE IF time_up(w.search_info, now)
    THEN Note([w EXCEPT !.env.elapsed = now,
                        !.stack[Len(w.stack)].pc = "after_loop"], "time_up_break")
    ELSE ab_loop_made([w EXCEPT !.env.elapsed = now],
                      pick_move(Top(w).move_list, Top(w).i),
                      make(w.board, pick_move(Top(w).move_list, Top(w).i)[Top(w).i + 1].mv))

\* A RootMoveAnalysis entry; reply is an Option (a sequence of at most one move)
RootMoveAnalysis(mv, eval, good_replies, reply, reply_sequence) ==
    [mv |-> mv, eval |-> eval, good_replies |-> good_replies, reply |-> reply,
     reply_sequence |-> reply_sequence]

\* The locals of a collect_sharp_sequence invocation on Board b (lines 418-429)
SharpFrame(b, depth, alpha, beta) ==
    [fn |-> "collect_sharp_sequence", pc |-> "sharp_loop", depth |-> depth, alpha |-> alpha,
     beta |-> beta, move_list |-> generate_moves(b), i |-> 0, evals |-> <<>>,
     best_eval |-> INF, best_move |-> <<>>, good |-> <<>>, reply |-> <<>>,
     sequence |-> <<>>]

\* lines 351-366: the root records the move, with what collect_sharp_sequence
\* returned if it was called, and goes on with the next move
ab_root_record(w, good_replies, reply, reply_sequence) ==
    Note([w EXCEPT !.stack[Len(w.stack)].root_analysis =
                       Append(@, RootMoveAnalysis(Top(w).current_move, Top(w).score,
                                                  good_replies, reply, reply_sequence)),
                   !.stack[Len(w.stack)].i = @ + 1,
                   !.stack[Len(w.stack)].pc = "loop"], "root_move_done")

\* lines 345-357: the root looks for the sharp sequence of a promising move
ab_root_sharp(w) ==
    IF Top(w).score > Top(w).alpha - search_params.sharp_margin
    THEN Call(w, "sharp_call", "sharp_ret",
              SharpFrame(w.board, Top(w).depth - 1, -Top(w).beta,
                         -Top(w).alpha + search_params.sharp_margin))
    ELSE ab_root_record(w, 0, <<>>, <<>>)

\* lines 323-343: the score of the move against the best so far, alpha and beta
ab_move_scored(w) ==
    LET f == Top(w)
        improved == f.score > f.best_eval_score
        raised == improved /\ f.score > f.alpha
        cutoff == raised /\ f.score >= f.beta
        updated ==
            [w EXCEPT
                !.stack[Len(w.stack)].best_eval_score = IF improved THEN f.score ELSE @,
                !.stack[Len(w.stack)].best_move =
                    IF improved THEN to_short_move(f.current_move) ELSE @,
                !.stack[Len(w.stack)].hash_flag =
                    IF cutoff THEN "Beta" ELSE IF raised THEN "Exact" ELSE @,
                !.stack[Len(w.stack)].alpha = IF raised THEN f.score ELSE @,
                !.stack[Len(w.stack)].pv =
                    IF raised THEN <<f.current_move>> \o f.tmp_pv ELSE @,
                !.thread_local_data.best_move_found =
                    IF raised /\ f.is_root THEN <<f.current_move>> ELSE @]
    IN  IF cutoff
        THEN Note([updated EXCEPT !.stack[Len(w.stack)].pc = "after_loop"], "beta_cutoff")
        ELSE IF f.is_root THEN ab_root_sharp(updated)
        ELSE Note([updated EXCEPT !.stack[Len(w.stack)].i = @ + 1,
                                  !.stack[Len(w.stack)].pc = "loop"], "move_done")

\* ab_move_done without the unmake of line 313
ab_move_done_no_unmake(w) ==
    IF w.search_info.terminate # "Nothing"
    THEN Note([w EXCEPT !.search_info.ply = @ - 1,
                        !.stack[Len(w.stack)].pc = "after_loop"], "terminated_break")
    ELSE ab_move_scored([w EXCEPT !.search_info.ply = @ - 1])

\* lines 316-321: the move is taken back; a terminated search leaves the loop
ab_move_done(w) ==
    IF w.search_info.terminate # "Nothing"
    THEN Note([w EXCEPT !.board = unmake(w.board),
                        !.search_info.ply = @ - 1,
                        !.stack[Len(w.stack)].pc = "after_loop"], "terminated_break")
    ELSE ab_move_scored([w EXCEPT !.board = unmake(w.board), !.search_info.ply = @ - 1])

\* lines 295-314: a search of the move made returned
ab_child_return(w) ==
    IF Top(w).pc = "lmr_ret" /\ -w.ret.score > Top(w).alpha
    THEN Call([w EXCEPT !.stack[Len(w.stack)].score = -w.ret.score,
                        !.stack[Len(w.stack)].tmp_pv = w.ret.pv],
              "lmr_research", "pvs_ret",
              ABFrame(Top(w).depth - 1, -Top(w).alpha - 1, -Top(w).alpha, w.ret.pv))
    ELSE IF Top(w).pc = "pvs_ret" /\ -w.ret.score > Top(w).alpha
                                  /\ -w.ret.score < Top(w).beta
    THEN Call([w EXCEPT !.stack[Len(w.stack)].score = -w.ret.score,
                        !.stack[Len(w.stack)].tmp_pv = w.ret.pv],
              "pvs_research", "full_ret",
              ABFrame(Top(w).depth - 1, -Top(w).beta, -Top(w).alpha, w.ret.pv))
    ELSE ab_move_done([w EXCEPT !.stack[Len(w.stack)].score = -w.ret.score,
                                !.stack[Len(w.stack)].tmp_pv = w.ret.pv])

\* lines 377-397: the entry joins the batch, and a full batch is flushed
ab_tt_store(w, batch) ==
    [w EXCEPT !.tt = IF TTBatch_is_full(batch) THEN flush_tt_batch(w.tt, batch).tt ELSE @,
              !.thread_local_data.tt_batch =
                  IF TTBatch_is_full(batch) THEN flush_tt_batch(w.tt, batch).tt_batch
                  ELSE batch,
              !.trace.peak = TTBatch_len(batch)]

\* lines 399-403: the root publishes its analysis; the best score is returned
ab_return_best(w) ==
    Return([w EXCEPT !.search_info.root_analysis =
                         IF Top(w).is_root THEN Top(w).root_analysis ELSE @],
           "return_best", Top(w).best_eval_score)

\* lines 369-403: after the main loop
ab_after_loop(w) ==
    IF Top(w).legal_moves_found = 0
    THEN IF Top(w).is_check
         THEN Return(w, "mate_return", -CHECKMATE + w.search_info.ply)
         ELSE Return(w, "stalemate_return", STALEMATE)
    ELSE IF tt_enabled
    THEN ab_tt_store(ab_return_best(w),
                     TTBatch_add(w.thread_local_data.tt_batch,
                                 w.board.game_state.zobrist_key,
                                 SearchData_create(Top(w).depth, w.search_info.ply,
                                                   Top(w).hash_flag, Top(w).best_eval_score,
                                                   Top(w).best_move)))
    ELSE ab_return_best(w)

(***************************************************************************)
(* Search::collect_sharp_sequence (search/alpha_beta.rs) on the same stack *)
(***************************************************************************)
\* return (good_replies, reply, reply_sequence)
SharpReturn(w, op, good_replies, reply, reply_sequence) ==
    [w EXCEPT !.stack = SubSeq(w.stack, 1, Len(w.stack) - 1),
              !.ret.good_replies = good_replies,
              !.ret.reply = reply,
              !.ret.reply_sequence = reply_sequence,
              !.trace = [op |-> op, frame |-> Top(w), peak |-> 0]]

\* lines 431-440: the loop over the moves; the move with index i is made and
\* searched
sharp_loop_next(w, now) ==
    LET made == make(w.board, Top(w).move_list[Top(w).i + 1])
    IN  IF Top(w).i >= Len(Top(w).move_list)
        THEN Note([w EXCEPT !.stack[Len(w.stack)].pc = "sharp_after_loop"], "sharp_loop_end")
        ELSE IF time_up(w.search_info, now)
        THEN Note([w EXCEPT !.env.elapsed = now,
                            !.stack[Len(w.stack)].pc = "sharp_after_loop"],
                  "sharp_time_up_break")
        ELSE IF ~made.legal
        THEN Note([w EXCEPT !.env.elapsed = now,
                            !.stack[Len(w.stack)].i = @ + 1], "sharp_illegal_move")
        ELSE Call([w EXCEPT !.env.elapsed = now,
                            !.board = made.board,
                            !.search_info.ply = @ + 1],
                  "sharp_eval_call", "sharp_eval_ret",
                  ABFrame(Top(w).depth - 1, -Top(w).beta, -Top(w).alpha, <<>>))

\* lines 440-454: the search of a move returned
sharp_eval_return(w, now) ==
    IF time_up(w.search_info, now)
    THEN SharpReturn([w EXCEPT !.env.elapsed = now,
                               !.board = unmake(w.board),
                               !.search_info.ply = @ - 1],
                     "sharp_eval_time_up", 0, <<>>, <<>>)
    ELSE Note([w EXCEPT
                  !.env.elapsed = now,
                  !.board = unmake(w.board),
                  !.search_info.ply = @ - 1,
                  !.stack[Len(w.stack)].best_eval = Min(@, -w.ret.score),
                  !.stack[Len(w.stack)].best_move =
                      IF -w.ret.score < Top(w).best_eval
                      THEN <<Top(w).move_list[Top(w).i + 1]>> ELSE @,
                  !.stack[Len(w.stack)].evals =
                      Append(@, [mv |-> Top(w).move_list[Top(w).i + 1],
                                 score |-> -w.ret.score]),
                  !.stack[Len(w.stack)].i = @ + 1,
                  !.stack[Len(w.stack)].pc = "sharp_loop"], "sharp_eval_done")

\* lines 457-461: the moves within sharp_margin of the best reply
good_moves(evals, best_eval) ==
    [k \in 1..Len(SelectSeq(evals, LAMBDA e : e.score <= best_eval + search_params.sharp_margin))
        |-> SelectSeq(evals,
                      LAMBDA e : e.score <= best_eval + search_params.sharp_margin)[k].mv]

\* lines 469-475: the forced reply is made and searched
sharp_forced(w, good, reply, made) ==
    IF ~made.legal
    THEN SharpReturn(w, "sharp_return", Len(good), reply, <<good[1]>>)
    ELSE Call([w EXCEPT !.board = made.board,
                        !.search_info.ply = @ + 1,
                        !.stack[Len(w.stack)].good = good,
                        !.stack[Len(w.stack)].reply = reply,
                        !.stack[Len(w.stack)].sequence = <<good[1]>>],
              "sharp_forced_call", "sharp_forced_ret",
              ABFrame(Top(w).depth - 1, Top(w).alpha, Top(w).beta, <<>>))

\* lines 463-467: the reply, and whether the line is followed further
sharp_replied(w, good, reply) ==
    IF Len(good) # 1 \/ Top(w).depth <= 1 \/ reply = <<>>
    THEN SharpReturn(w, "sharp_return", Len(good), reply, <<>>)
    ELSE sharp_forced(w, good, reply, make(w.board, good[1]))

\* lines 457-467: after the loop over the moves
sharp_after_loop(w) ==
    sharp_replied(w, good_moves(Top(w).evals, Top(w).best_eval),
                  IF Len(good_moves(Top(w).evals, Top(w).best_eval)) = 1
                  THEN <<good_moves(Top(w).evals, Top(w).best_eval)[1]>>
                  ELSE Top(w).best_move)

\* lines 500-504: the forced reply is taken back
sharp_finish(w) ==
    SharpReturn([w EXCEPT !.board = unmake(w.board), !.search_info.ply = @ - 1],
                "sharp_return", Len(Top(w).good), Top(w).reply, Top(w).sequence)

\* lines 475-487: the search behind the forced reply returned; its answer is
\* made and the line followed
sharp_forced_return(w, now) ==
    LET made == make(w.board, w.ret.pv[1])
    IN  IF time_up(w.search_info, now)
        THEN SharpReturn([w EXCEPT !.env.elapsed = now,
                                   !.board = unmake(w.board),
                                   !.search_info.ply = @ - 1],
                         "sharp_forced_time_up", 0, <<>>, Top(w).sequence)
        ELSE IF Top(w).depth > 2 /\ w.ret.pv # <<>> /\ made.legal
        THEN Call([w EXCEPT !.env.elapsed = now,
                            !.board = made.board,
                            !.search_info.ply = @ + 1],
                  "sharp_next_call", "sharp_next_ret",
                  SharpFrame(made.board, Top(w).depth - 2, Top(w).alpha, Top(w).beta))
        ELSE sharp_finish([w EXCEPT !.env.elapsed = now])

\* lines 486-495: the rest of the line returned; on time up one move is taken
\* back
sharp_next_return(w, now) ==
    IF time_up(w.search_info, now)
    THEN SharpReturn([w EXCEPT !.env.elapsed = now,
                               !.board = unmake(w.board),
                               !.search_info.ply = @ - 1],
                     "sharp_next_time_up", 0, <<Top(w).sequence[1]>>, Top(w).sequence)
    ELSE sharp_finish([w EXCEPT !.env.elapsed = now,
                                !.board = unmake(w.board),
                                !.search_info.ply = @ - 1,
                                !.stack[Len(w.stack)].sequence = @ \o w.ret.reply_sequence])

(***************************************************************************)
(* Specification SpecSearch: one call of Search::alpha_beta at the root    *)
(* with the full window, run to its return.  The control channel and the   *)
(* timer are the environment: a probe may find any command waiting, and    *)
(* the timer shows any reading not earlier than the last one.  One search  *)
(* is followed from a node deep in the tree, at ply MAX_PLY - 1, on.       *)
(***************************************************************************)
\* The searches started: position, depth, the node count so far (it decides
\* where the termination probes fall), allocated time, use of the table, and
\* the ply of the node the search is followed from
Scenario(pos, depth, nodes, allocated_time, enabled) ==
    [pos |-> pos, depth |-> depth, nodes |-> nodes, allocated_time |-> allocated_time,
     tt_enabled |-> enabled, ply |-> 0]

\* The pseudo-legal move of b from one square to another
MoveFromTo(b, from, to) ==
    LET ml == generate_moves(b)
    IN  ml[CHOOSE k \in 1..Len(ml) : ml[k].from = from /\ ml[k].to = to]

\* The position after the moves (pairs of squares) were made from b
RECURSIVE Played(_, _)
Played(b, moves) ==
    IF moves = <<>> THEN b
    ELSE Played(make(b, MoveFromTo(b, Head(moves)[1], Head(moves)[2])).board, Tail(moves))

\* k7/8/1K6/8/8/8/8/7R after Rh1-h2, Ka8-b8, Rh2-h1: Black to move, and
\* Kb8-a8 repeats the first position of the game
RookShuffle ==
    Played(fen_read("k7/8/1K6/8/8/8/8/7R w - - 0 1"), <<<<7, 15>>, <<56, 57>>, <<15, 7>>>>)

\* The Board of a search thread at a node at ply n: the history is the one
\* Board::clone made, holding the snapshots of the n moves made from the root
AtPly(b, n) ==
    [b EXCEPT !.history = [History_new_for_search EXCEPT
                              !.list = [k \in 1..n |-> Snapshot(GameState_new, NoMove)],
                              !.count = n]]

Scenarios ==
    {Scenario(fen_read("8/8/8/8/8/8/2k5/K7 w - - 0 1"), 4, 0, 400, TRUE),
     Scenario(fen_read("8/8/8/7p/7P/2k5/8/K7 w - - 0 1"), 6, 2046, 100000, TRUE),
     Scenario(fen_read("8/8/8/8/8/8/2k5/K7 w - - 0 1"), 2, 2047, 400, TRUE),
     Scenario(fen_read("8/8/8/7p/7P/2k5/8/K7 w - - 0 1"), 3, 2046, 400, FALSE),
     Scenario(fen_read("k7/8/1K6/8/8/8/8/7R w - - 0 1"), 2, 0, 400, TRUE),
     Scenario(fen_read("k7/P7/2K5/8/8/8/8/8 w - - 0 1"), 2, 0, 400, TRUE),
     Scenario(RookShuffle, 2, 0, 400, TRUE),
     Scenario(RookShuffle, 1, 0, 400, TRUE),
     [Scenario(AtPly(fen_read("8/8/8/7p/7P/2k5/8/K7 w - - 0 1"), MAX_PLY - 1),
               2, 2047, 100000, TRUE)
         EXCEPT !.ply = MAX_PLY - 1]}

InitSearch ==
    \E sc \in Scenarios :
        /\ board = sc.pos
        /\ stack = <<ABFrame(sc.depth, -INF, INF, <<>>)>>
        /\ ret = [score |-> 0, pv |-> <<>>, good_replies |-> 0, reply |-> <<>>,
                  reply_sequence |-> <<>>]
        /\ search_info = [SearchInfo_new EXCEPT !.nodes = sc.nodes,
                                                !.allocated_time = sc.allocated_time,
                                                !.ply = sc.ply]
        /\ search_params = SearchParams_new
        /\ thread_local_data = ThreadLocalData_new
        /\ tt = <<>>
        /\ tt_enabled = sc.tt_enabled
        /\ env = [elapsed |-> 0]
        /\ settings = Settings_new
        /\ trace = [op |-> "init", frame |-> ABFrame(sc.depth, -INF, INF, <<>>), peak |-> 0]

\* The running invocation stands at one of the places pcs
At(pcs) == stack # <<>> /\ stack[Len(stack)].pc \in pcs

AlphaBetaEnter ==
    /\ At({"entry"})
    /\ \E cmd \in ControlCommands, now \in Readings : Becomes(ab_enter(World, cmd, now))

NullMoveReturn == At({"null_ret"}) /\ Becomes(ab_null_return(World))

MultiCutNext == At({"multicut"}) /\ Becomes(ab_multicut_next(World))

MultiCutReturn == At({"multicut_ret"}) /\ Becomes(ab_multicut_return(World))

LoopNext == At({"loop"}) /\ \E now \in Readings : Becomes(ab_loop_next(World, now))

ChildReturn == At({"lmr_ret", "pvs_ret", "full_ret"}) /\ Becomes(ab_child_return(World))

RootSharpReturn ==
    /\ At({"sharp_ret"})
    /\ Becomes(ab_root_record(World, ret.good_replies, ret.reply, ret.reply_sequence))

AfterLoop == At({"after_loop"}) /\ Becomes(ab_after_loop(World))

SharpLoopNext ==
    At({"sharp_loop"}) /\ \E now \in Readings : Becomes(sharp_loop_next(World, now))

SharpEvalReturn ==
    At({"sharp_eval_ret"}) /\ \E now \in Readings : Becomes(sharp_eval_return(World, now))

SharpAfterLoop == At({"sharp_after_loop"}) /\ Becomes(sharp_after_loop(World))

SharpForcedReturn ==
    At({"sharp_forced_ret"}) /\ \E now \in Readings : Becomes(sharp_forced_return(World, now))

SharpNextReturn ==
    At({"sharp_next_ret"}) /\ \E now \in Readings : Becomes(sharp_next_return(World, now))

NextSearch ==
    \/ AlphaBetaEnter
    \/ NullMoveReturn
    \/ MultiCutNext
    \/ MultiCutReturn
    \/ LoopNext
    \/ ChildReturn
    \/ RootSharpReturn
    \/ AfterLoop
    \/ SharpLoopNext
    \/ SharpEvalReturn
    \/ SharpAfterLoop
    \/ SharpForcedReturn
    \/ SharpNextReturn

SpecSearch == InitSearch /\ [][NextSearch]_vars

\* Some pseudo-legal move of b leaves the mover's king unattacked
HasLegalMove(b) ==
    \E k \in 1..Len(generate_moves(b)) : make(b, generate_moves(b)[k]).legal

\* The side to move of b is in check
InCheck(b) == square_attacked(b, opponent(b), king_square(b, us(b)))

(***************************************************************************)
(* Properties of the search                                                *)
(***************************************************************************)
Terminated == search_info.terminate # "Nothing"

\* The paths on which alpha_beta returns
ReturnOps ==
    {"terminated_return", "probe_terminated_return", "max_ply_return", "quiescence_return",
     "repetition_return", "tt_return", "null_move_cutoff", "multicut_cutoff", "mate_return",
     "stalemate_return", "return_best"}

\* The number of steps an invocation of a terminated search can still take,
\* the steps of the invocations it may still call included
UnwindSteps(f) ==
    CASE f.pc \in {"entry", "after_loop", "sharp_eval_ret", "sharp_forced_ret",
                   "sharp_next_ret"} -> 1
      [] f.pc \in {"loop", "full_ret"} -> 2
      [] f.pc \in {"sharp_ret", "sharp_after_loop"} -> 3
      [] f.pc \in {"pvs_ret", "sharp_loop"} -> 4
      [] f.pc = "lmr_ret" -> 6
      [] f.pc = "multicut_ret" -> 3 * (MULTICUT_MOVES - f.j) + 1
      [] f.pc = "multicut" -> 3 * (MULTICUT_MOVES - f.j) + 3
      [] f.pc = "null_ret" -> 3 * MULTICUT_MOVES + 4

RECURSIVE UnwindBound(_)
UnwindBound(frames) ==
    IF frames = <<>> THEN 0 ELSE UnwindSteps(Head(frames)) + UnwindBound(Tail(frames))

\* C6: once search_info.terminate is Stop or Quit it stays set; an alpha_beta
\* node entered afterwards returns 0 at once, without counting the node,
\* probing the table, generating moves or making a move; the main loop of a
\* stacked invocation makes no further move and leaves the loop as soon as
\* the searches of its current move have returned; and every step of the
\* terminated search lowers the bound on the steps the stacked invocations
\* can still take, so that the search returns to its caller within that
\* many steps.
C6_UnwindingOnTermination ==
    /\ [][Terminated => search_info'.terminate # "Nothing"]_vars
    /\ [][(Terminated /\ At({"entry"})) =>
            /\ stack' = SubSeq(stack, 1, Len(stack) - 1)
            /\ ret'.score = 0
            /\ board' = board
            /\ tt' = tt
            /\ thread_local_data'.local_tt_cache = thread_local_data.local_tt_cache
            /\ thread_local_data'.tt_batch = thread_local_data.tt_batch
            /\ search_info'.nodes = search_info.nodes
            /\ trace'.frame.move_list = <<>>]_vars
    /\ [][(Terminated /\ At({"loop"})) =>
            /\ board' = board
            /\ stack' = [stack EXCEPT ![Len(stack)].pc = "after_loop"]]_vars
    /\ [][(Terminated /\ At({"lmr_ret", "pvs_ret", "full_ret"}) /\ Len(stack') = Len(stack)) =>
            stack'[Len(stack)].pc = "after_loop"]_vars
    /\ [][(Terminated /\ Len(stack') > Len(stack)) =>
            /\ Len(stack') = Len(stack) + 1
            /\ stack'[Len(stack')].pc = "entry"]_vars
    /\ [][Terminated => UnwindBound(stack') < UnwindBound(stack)]_vars

\* A node with depth left was entered after the search was terminated and has
\* returned to an invocation that is still on the stack
C6_Witness ==
    /\ trace.op = "terminated_return"
    /\ trace.frame.depth >= 1
    /\ Terminated
    /\ ret.score = 0
    /\ stack # <<>>

\* C7: alpha_beta returns the mate score -CHECKMATE + ply only when the side to
\* move is in check and has no legal move, the STALEMATE score through the
\* no-legal-move path only when it is not in check and has no legal move; a
\* node with a legal move never takes the no-legal-move return.
C7_MateStalemateScoring ==
    /\ trace.op = "mate_return" =>
          /\ ret.score = -CHECKMATE + search_info.ply
          /\ InCheck(board)
          /\ ~HasLegalMove(board)
    /\ trace.op = "stalemate_return" =>
          /\ ret.score = STALEMATE
          /\ ~InCheck(board)
          /\ ~HasLegalMove(board)

\* C8: alpha_beta called with the full window (-INF, INF) at a depth >= 1
\* returns a score strictly between -INF and INF on every return path.
C8_ScoreRange ==
    (/\ trace.op \in ReturnOps
     /\ trace.frame.alpha0 = -INF
     /\ trace.frame.beta = INF
     /\ trace.frame.depth0 >= 1)
        => (-INF < ret.score /\ ret.score < INF)

\* A move that neither captures nor promotes
IsQuiet(m) == m.captured = NONE /\ m.promoted = NONE /\ ~m.castling /\ ~m.en_passant

\* C9: when a move scores >= beta the node stops searching further moves and
\* stores a Beta-flagged entry for its position; if the move is quiet, the
\* first killer slot of the node's ply holds it afterwards and
\* history_heuristic[side][piece][to] has grown by depth * depth.
C9_FailHighBookkeeping ==
    /\ [][trace'.op = "beta_cutoff" =>
            /\ trace'.frame.hash_flag = "Beta"
            /\ trace'.frame.pc = "after_loop"
            /\ IsQuiet(trace'.frame.current_move) =>
                  /\ killers_at(search_info', search_info'.ply)[1]
                        = to_short_move(trace'.frame.current_move)
                  /\ history_score(search_info', us(board'), trace'.frame.current_move.piece,
                                   trace'.frame.current_move.to)
                        = history_score(search_info, us(board'),
                                        trace'.frame.current_move.piece,
                                        trace'.frame.current_move.to)
                          + trace'.frame.depth * trace'.frame.depth]_vars
    /\ [][(At({"after_loop"}) /\ stack[Len(stack)].hash_flag = "Beta" /\ tt_enabled) =>
            \E e \in {(thread_local_data'.tt_batch \o tt')[k] :
                          k \in 1..Len(thread_local_data'.tt_batch \o tt')} :
                /\ e.zobrist_key = board.game_state.zobrist_key
                /\ e.data.flag = "Beta"]_vars

DOUBLED_PAWN_PENALTY == -30
ISOLATED_PAWN_PENALTY == -35
BACKWARD_PAWN_PENALTY == -22
CONNECTED_PAWN_BONUS == 10
PAWN_CHAIN_BONUS == 6
CENTRAL_PAWN_BONUS == 6
ROOK_FILE_PAWN_PENALTY == -10

\* BB_FILES[file]
BB_FILES(file) == {s \in Squares : FileOf(s) = file}

\* fill |= fill << 8, << 16, << 32: every square north of a set bit on its
\* file; the original squares are masked out at the end
north_fill(bitboard) ==
    {s \in Squares : \E p \in bitboard : FileOf(s) = FileOf(p) /\ RankOf(s) >= RankOf(p)}
        \ bitboard

south_fill(bitboard) ==
    {s \in Squares : \E p \in bitboard : FileOf(s) = FileOf(p) /\ RankOf(s) <= RankOf(p)}
        \ bitboard

file_fill(bitboard) == UNION {BB_FILES(file) : file \in {f \in 0..7 : bitboard \cap BB_FILES(f) # {}}}

\* white_front_spans / black_front_spans and white_rear_spans / black_rear_spans
front_spans(pawns, is_white) == IF is_white THEN north_fill(pawns) ELSE south_fill(pawns)

rear_spans(pawns, is_white) == IF is_white THEN south_fill(pawns) ELSE north_fill(pawns)

\* white_doubled_pawns / black_doubled_pawns: <<rear_doubles, front_doubles>>
doubled_pawns(pawns, is_white) ==
    LET behind_own == pawns \cap rear_spans(pawns, is_white)
        in_front_own == pawns \cap front_spans(pawns, is_white)
        files_with_triples == file_fill(in_front_own \cap behind_own)
    IN  <<behind_own \ files_with_triples, in_front_own \ files_with_triples>>

isolated_pawns(pawns) ==
    UNION {pawns \cap BB_FILES(file) :
              file \in {f \in 0..7 :
                  /\ ~(f > 0 /\ pawns \cap BB_FILES(f - 1) # {})
                  /\ ~(f < 7 /\ pawns \cap BB_FILES(f + 1) # {})}}

\* white_pawn_attacks: << 7 off the a-file, << 9 off the h-file;
\* black_pawn_attacks: >> 9 off the a-file, >> 7 off the h-file
pawn_attacks(pawns, is_white) ==
    LET left == {IF is_white THEN p + 7 ELSE p - 9 : p \in pawns \ BB_FILES(0)}
        right == {IF is_white THEN p + 9 ELSE p - 7 : p \in pawns \ BB_FILES(7)}
    IN  (left \cup right) \cap Squares

\* The support area is the rear span of the pawn itself
backward_pawns(own_pawns, enemy_pawns, is_white) ==
    LET enemy_attacks == pawn_attacks(enemy_pawns, ~is_white)
        advance_square(square) ==
            IF is_white THEN (IF square < 56 THEN {square + 8} ELSE {})
            ELSE (IF square >= 8 THEN {square - 8} ELSE {})
        has_support(square) ==
            \E adj_file \in {Max(FileOf(square) - 1, 0), Min(FileOf(square) + 1, 7)} :
                /\ adj_file # FileOf(square)
                /\ (own_pawns \cap BB_FILES(adj_file)) \cap rear_spans({square}, is_white) # {}
    IN  {square \in own_pawns :
            advance_square(square) \cap enemy_attacks # {} /\ ~has_support(square)}

\* white_passed_pawns / black_passed_pawns through pawn::get_passed_pawns: the
\* enemy spans are the enemy pawns' front spans, the front spans of the enemy
\* pawns shifted one file left and right, and the enemy pawns themselves
get_passed_pawns(own_pawns, enemy_pawns, is_white) ==
    LET left_adjacent == {p - 1 : p \in enemy_pawns \ BB_FILES(0)}
        right_adjacent == {p + 1 : p \in enemy_pawns \ BB_FILES(7)}
        enemy_spans == front_spans(enemy_pawns, ~is_white)
                       \cup front_spans(left_adjacent \cup right_adjacent, ~is_white)
                       \cup enemy_pawns
    IN  {square \in own_pawns : front_spans({square}, is_white) \cap enemy_spans = {}}

\* tests::get_passed_pawns_old, the reference definition of the tests
get_passed_pawns_old(own_pawns, enemy_pawns, is_white) ==
    {square \in own_pawns :
        \A check_file \in {Max(FileOf(square) - 1, 0), FileOf(square),
                           Min(FileOf(square) + 1, 7)} :
            \A enemy_square \in enemy_pawns \cap BB_FILES(check_file) :
                /\ ~(is_white /\ RankOf(enemy_square) > RankOf(square))
                /\ ~(~is_white /\ RankOf(enemy_square) < RankOf(square))}

\* PASSED_PAWN_BONUS[pawn_rank] summed over the passed pawns
evaluate_passed_pawns(passed_pawns, is_white) ==
    LET PASSED_PAWN_BONUS == <<0, 20, 30, 55, 95, 160, 240, 0>>
        on_rank(pawn_rank) ==
            Cardinality({square \in passed_pawns :
                (IF is_white THEN RankOf(square) ELSE 7 - RankOf(square)) = pawn_rank})
    IN  PASSED_PAWN_BONUS[1] * on_rank(0) + PASSED_PAWN_BONUS[2] * on_rank(1)
        + PASSED_PAWN_BONUS[3] * on_rank(2) + PASSED_PAWN_BONUS[4] * on_rank(3)
        + PASSED_PAWN_BONUS[5] * on_rank(4) + PASSED_PAWN_BONUS[6] * on_rank(5)
        + PASSED_PAWN_BONUS[7] * on_rank(6) + PASSED_PAWN_BONUS[8] * on_rank(7)

\* The pawns reached from `to_check` by following pawn attacks onto own pawns
RECURSIVE find_connected_pawns(_, _, _, _)
find_connected_pawns(connected, to_check, all_pawns, is_white) ==
    LET new_connections == (pawn_attacks(to_check, is_white) \cap all_pawns) \ connected
    IN  IF new_connections = {} THEN connected
        ELSE find_connected_pawns(connected \cup new_connections, new_connections,
                                  all_pawns, is_white)

\* The loop over the pawns in ascending square order, skipping processed ones
RECURSIVE count_pawn_chains(_, _, _, _)
count_pawn_chains(pawns_copy, processed, pawns, is_white) ==
    IF pawns_copy = {} THEN 0
    ELSE LET square == CHOOSE p \in pawns_copy : \A q \in pawns_copy : p <= q
             chain_pawns == find_connected_pawns({square}, {square}, pawns, is_white)
         IN  IF square \in processed
             THEN count_pawn_chains(pawns_copy \ {square}, processed, pawns, is_white)
             ELSE (IF Cardinality(chain_pawns) >= 2 THEN Cardinality(chain_pawns) - 1 ELSE 0)
                  + count_pawn_chains(pawns_copy \ {square}, processed \cup chain_pawns,
                                      pawns, is_white)

evaluate_pawn_connections(pawns, is_white) ==
    Cardinality(pawns \cap pawn_attacks(pawns, is_white)) * CONNECTED_PAWN_BONUS
    + count_pawn_chains(pawns, {}, pawns, is_white) * PAWN_CHAIN_BONUS

evaluate_pawn_files(pawns) ==
    (Cardinality(pawns \cap BB_FILES(3)) + Cardinality(pawns \cap BB_FILES(4)))
        * CENTRAL_PAWN_BONUS
    + (Cardinality(pawns \cap BB_FILES(0)) + Cardinality(pawns \cap BB_FILES(7)))
        * ROOK_FILE_PAWN_PENALTY

evaluate_side_pawns(own_pawns, enemy_pawns, is_white) ==
    (Cardinality(doubled_pawns(own_pawns, is_white)[1])
        + Cardinality(doubled_pawns(own_pawns, is_white)[2])) * DOUBLED_PAWN_PENALTY
    + Cardinality(isolated_pawns(own_pawns)) * ISOLATED_PAWN_PENALTY
    + Cardinality(backward_pawns(own_pawns, enemy_pawns, is_white)) * BACKWARD_PAWN_PENALTY
    + evaluate_passed_pawns(get_passed_pawns(own_pawns, enemy_pawns, is_white), is_white)
    + evaluate_pawn_connections(own_pawns, is_white)
    + evaluate_pawn_files(own_pawns)

evaluate_pawn_structure(b) ==
    evaluate_side_pawns(b.bb_pieces[WHITE][PAWN], b.bb_pieces[BLACK][PAWN], TRUE)
    - evaluate_side_pawns(b.bb_pieces[BLACK][PAWN], b.bb_pieces[WHITE][PAWN], FALSE)

(***************************************************************************)
(* Mobility evaluation (evaluation/mobility.rs)                            *)
(***************************************************************************)
ROOK_OPEN_FILE_BONUS == 30
ROOK_HALF_OPEN_FILE_BONUS == 15
BISHOP_LONG_DIAGONAL_BONUS == 10

\* The sum of f[x] over the x in S
RECURSIVE SumOf(_, _)
SumOf(f, S) ==
    IF S = {} THEN 0
    ELSE LET x == CHOOSE y \in S : TRUE IN f[x] + SumOf(f, S \ {x})

\* legal_moves.count_ones() with legal_moves = attacks & !own_pieces
mobility_count(b, side, piece, square) ==
    Cardinality(AttacksFrom(piece, side, square, occupancy(b)) \ b.bb_side[side])

\* get_knight_mobility_bonus .. get_queen_mobility_bonus: the table entry, the
\* last one for a count beyond the table.  KNIGHT_MOBILITY, BISHOP_MOBILITY and
\* ROOK_MOBILITY are the first 9, 14 and 15 entries of QUEEN_MOBILITY.
get_mobility_bonus(piece, count) ==
    LET QUEEN_MOBILITY == <<-25, -11, -3, 3, 8, 12, 15, 17, 18, 20, 22, 23, 24, 25, 26,
                            27, 28, 29, 30, 31, 32, 33, 34, 35, 36, 37, 38, 39>>
        len == CASE piece = KNIGHT -> 9 [] piece = BISHOP -> 14
                 [] piece = ROOK -> 15 [] piece = QUEEN -> 28
    IN  IF count < len THEN QUEEN_MOBILITY[count + 1] ELSE QUEEN_MOBILITY[len]

evaluate_rook_file_bonus(b, rook_square, side) ==
    LET file_bb == BB_FILES(FileOf(rook_square))
        friendly_pawns == b.bb_pieces[side][PAWN] \cap file_bb
        enemy_pawns == b.bb_pieces[1 - side][PAWN] \cap file_bb
    IN  IF friendly_pawns = {} /\ enemy_pawns = {} THEN ROOK_OPEN_FILE_BONUS
        ELSE IF friendly_pawns = {} /\ enemy_pawns # {} THEN ROOK_HALF_OPEN_FILE_BONUS
        ELSE 0

is_bishop_on_long_diagonal(square, attacks) ==
    LET long_diagonals == {s \in Squares : FileOf(s) = RankOf(s) \/ FileOf(s) + RankOf(s) = 7}
    IN  square \in long_diagonals /\ Cardinality(attacks \cap long_diagonals) >= 4

calculate_side_mobility(b, side) ==
    SumOf([square \in Squares |-> get_mobility_bonus(KNIGHT, mobility_count(b, side, KNIGHT, square))],
          b.bb_pieces[side][KNIGHT])
    + SumOf([square \in Squares |->
                get_mobility_bonus(BISHOP, mobility_count(b, side, BISHOP, square))
                + (IF is_bishop_on_long_diagonal(square,
                          AttacksFrom(BISHOP, side, square, occupancy(b)))
                   THEN BISHOP_LONG_DIAGONAL_BONUS ELSE 0)],
            b.bb_pieces[side][BISHOP])
    + SumOf([square \in Squares |->
                get_mobility_bonus(ROOK, mobility_count(b, side, ROOK, square))
                + evaluate_rook_file_bonus(b, square, side)],
            b.bb_pieces[side][ROOK])
    + SumOf([square \in Squares |-> get_mobility_bonus(QUEEN, mobility_count(b, side, QUEEN, square))],
            b.bb_pieces[side][QUEEN])

evaluate_mobility(b) == calculate_side_mobility(b, WHITE) - calculate_side_mobility(b, BLACK)

(***************************************************************************)
(* The evaluation caches of the Board (board.rs, Cache Management)         *)
(***************************************************************************)
\* x.wrapping_mul(k) on 64-bit words: x a set of bit positions, k the bytes of
\* the multiplier from the least significant one; schoolbook multiplication
\* in base 256, the carry out of byte 7 dropped
wrapping_mul(x, k) ==
    LET byte == [i \in 0..7 |-> SumOf([j \in 0..7 |-> IF 8 * i + j \in x THEN 2^j ELSE 0], 0..7)]
        column == [c \in 0..7 |->
                      SumOf([i \in 0..7 |-> IF i <= c THEN byte[i] * k[c - i + 1] ELSE 0], 0..7)]
        carry[c \in 0..7] == IF c = 0 THEN 0 ELSE (column[c - 1] + carry[c - 1]) \div 256
    IN  {s \in Squares : (((column[s \div 8] + carry[s \div 8]) % 256) \div 2^(s % 8)) % 2 = 1}

\* white_pawns.wrapping_mul(0x517cc1b727220a95) ^ black_pawns.wrapping_mul(0x517cc1b727220a97)
compute_pawn_hash(b) ==
    Xor(wrapping_mul(b.bb_pieces[WHITE][PAWN], <<149, 10, 34, 39, 183, 193, 124, 81>>),
        wrapping_mul(b.bb_pieces[BLACK][PAWN], <<151, 10, 34, 39, 183, 193, 124, 81>>))

update_pawn_structure_cache(b) ==
    LET current_hash == compute_pawn_hash(b)
    IN  IF current_hash # b.game_state.pawn_hash
        THEN [b EXCEPT !.game_state.pawn_structure_score = evaluate_pawn_structure(b),
                       !.game_state.pawn_hash = current_hash]
        ELSE b

get_cached_pawn_structure_score(b) ==
    LET updated == update_pawn_structure_cache(b)
    IN  [board |-> updated, score |-> updated.game_state.pawn_structure_score]

calculate_game_phase(b) ==
    Min(SumOf([side \in Sides |->
                  Cardinality(b.bb_pieces[side][QUEEN]) * 4
                  + Cardinality(b.bb_pieces[side][ROOK]) * 2
                  + Cardinality(b.bb_pieces[side][BISHOP]) * 1
                  + Cardinality(b.bb_pieces[side][KNIGHT]) * 1], Sides), 24)

invalidate_caches(b) == [b EXCEPT !.game_state.mobility_score = 0]

invalidate_caches_on_capture(b) ==
    [b EXCEPT !.game_state.mobility_score = 0,
              !.game_state.game_phase = calculate_game_phase(b)]

invalidate_mobility_cache(b) == [b EXCEPT !.game_state.mobility_score = 0]

is_mobility_cache_valid(b) == b.game_state.mobility_score # 0

update_mobility_cache(b) ==
    IF ~is_mobility_cache_valid(b)
    THEN [b EXCEPT !.game_state.mobility_score = evaluate_mobility(b)]
    ELSE b

get_cached_mobility_score(b) ==
    LET updated == update_mobility_cache(b)
    IN  [board |-> updated, score |-> updated.game_state.mobility_score]

(***************************************************************************)
(* Specification SpecCache: pawns put, removed and moved on a Board set up *)
(* from a FEN, the cached scores read and the caches invalidated, in any   *)
(* order.  trace.score is the value the last read returned.                *)
(***************************************************************************)
CacheSquares == {46, 55}

CacheStart == fen_read("5N2/P1P4P/8/8/8/8/8/8 w - - 0 1")

InitCache ==
    /\ board = CacheStart
    /\ trace = [op |-> "fen_read", score |-> 0, evaluated |-> FALSE]
    /\ NoSearch

PutPawn ==
    \E side \in Sides, square \in CacheSquares :
        /\ square \notin occupancy(board)
        /\ board' = put_piece(board, side, PAWN, square)
        /\ trace' = [op |-> "put_piece", score |-> 0, evaluated |-> FALSE]
        /\ UNCHANGED searchVars

RemovePawn ==
    \E side \in Sides, square \in CacheSquares :
        /\ square \in board.bb_pieces[side][PAWN]
        /\ board' = remove_piece(board, side, PAWN, square)
        /\ trace' = [op |-> "remove_piece", score |-> 0, evaluated |-> FALSE]
        /\ UNCHANGED searchVars

MovePawn ==
    \E side \in Sides, from \in CacheSquares, to \in CacheSquares :
        /\ from \in board.bb_pieces[side][PAWN]
        /\ to \notin occupancy(board)
        /\ board' = move_piece(board, side, PAWN, from, to)
        /\ trace' = [op |-> "move_piece", score |-> 0, evaluated |-> FALSE]
        /\ UNCHANGED searchVars

FenRead ==
    /\ board' = CacheStart
    /\ trace' = [op |-> "fen_read", score |-> 0, evaluated |-> FALSE]
    /\ UNCHANGED searchVars

GetCachedPawnStructureScore ==
    LET returned == get_cached_pawn_structure_score(board)
    IN  /\ board' = returned.board
        /\ trace' = [op |-> "get_cached_pawn_structure_score", score |-> returned.score,
                     evaluated |-> returned.board.game_state.pawn_hash
                                       # board.game_state.pawn_hash]
        /\ UNCHANGED searchVars

GetCachedMobilityScore ==
    LET returned == get_cached_mobility_score(board)
    IN  /\ board' = returned.board
        /\ trace' = [op |-> "get_cached_mobility_score", score |-> returned.score,
                     evaluated |-> ~is_mobility_cache_valid(board)]
        /\ UNCHANGED searchVars

InvalidateCaches ==
    /\ board' = invalidate_caches(board)
    /\ trace' = [op |-> "invalidate_caches", score |-> 0, evaluated |-> FALSE]
    /\ UNCHANGED searchVars

InvalidateCachesOnCapture ==
    /\ board' = invalidate_caches_on_capture(board)
    /\ trace' = [op |-> "invalidate_caches_on_capture", score |-> 0, evaluated |-> FALSE]
    /\ UNCHANGED searchVars

InvalidateMobilityCache ==
    /\ board' = invalidate_mobility_cache(board)
    /\ trace' = [op |-> "invalidate_mobility_cache", score |-> 0, evaluated |-> FALSE]
    /\ UNCHANGED searchVars

NextCache ==
    \/ PutPawn
    \/ RemovePawn
    \/ MovePawn
    \/ FenRead
    \/ GetCachedPawnStructureScore
    \/ GetCachedMobilityScore
    \/ InvalidateCaches
    \/ InvalidateCachesOnCapture
    \/ InvalidateMobilityCache

SpecCache == InitCache /\ [][NextCache]_vars

\* C11: after any sequence of changes to the two pawn bitboards,
\* get_cached_pawn_structure_score returns exactly evaluate_pawn_structure of
\* the current board, and it re-evaluates only when compute_pawn_hash of the
\* current pawns differs from the stored game_state.pawn_hash.
C11_PawnStructureCache ==
    /\ [](trace.op = "get_cached_pawn_structure_score"
            => trace.score = evaluate_pawn_structure(board))
    /\ [][(trace'.op = "get_cached_pawn_structure_score" /\ trace'.evaluated)
            => compute_pawn_hash(board) # board.game_state.pawn_hash]_vars

\* C12: get_cached_mobility_score always returns the value evaluate_mobility
\* computes for the current piece placement, after any sequence of piece
\* changes, cache-invalidation calls and earlier cache reads.
C12_MobilityCacheFresh ==
    trace.op = "get_cached_mobility_score" => trace.score = evaluate_mobility(board)

\* C18: for both colours, the bitboard-based get_passed_pawns returns exactly
\* the pawns of the reference definition: an own pawn is passed iff no enemy
\* pawn stands on its file or an adjacent file on a rank strictly ahead of it.
C18_PassedPawnEquivalence ==
    \A side \in Sides :
        get_passed_pawns(board.bb_pieces[side][PAWN], board.bb_pieces[1 - side][PAWN],
                         side = WHITE)
        = get_passed_pawns_old(board.bb_pieces[side][PAWN], board.bb_pieces[1 - side][PAWN],
                               side = WHITE)

\* C19: for every knight, bishop, rook and queen the mobility count that
\* indexes its bonus table is the number of attacked squares that are neither
\* occupied by a piece of its own side nor attacked by an opposing pawn.
C19_MobilityCounting ==
    (trace.op = "get_cached_mobility_score" /\ trace.evaluated) =>
        \A side \in Sides : \A piece \in {KNIGHT, BISHOP, ROOK, QUEEN} :
            \A square \in board.bb_pieces[side][piece] :
                mobility_count(board, side, piece, square)
                = Cardinality((AttacksFrom(piece, side, square, occupancy(board))
                                 \ board.bb_side[side])
                              \ pawn_attacks(board.bb_pieces[1 - side][PAWN], side = BLACK))

\* C13: alpha_beta tries a null move at a node only if the node is not the
\* root, the side to move is not in check, material is sufficient and the
\* remaining depth is greater than NULL_MOVE_REDUCTION + 1; no null move is
\* tried at depth 4, and a null-move search is never started with a depth
\* below 1.
C13_NullMovePrecondition ==
    trace.op = "null_move_call" =>
        /\ ~trace.frame.is_root
        /\ ~trace.frame.is_check
        /\ ~is_insufficient_material(board)
        /\ trace.frame.depth > NULL_MOVE_REDUCTION + 1
        /\ trace.frame.depth # 4
        /\ stack[Len(stack)].depth >= 1

(***************************************************************************)
(* The repetition penalty (search/alpha_beta.rs 82-102)                    *)
(***************************************************************************)
\* The penalty as the contract states it
StatedPenalty(e) ==
    IF e >= 300 THEN -150
    ELSE IF 150 <= e /\ e < 300 THEN -75
    ELSE IF 50 <= e /\ e < 150 THEN -25
    ELSE IF e <= -150 THEN 0
    ELSE -10

\* Evaluations around every threshold of the penalty
PenaltyEvals == {-400, -151, -150, -149, 0, 49, 50, 51, 149, 150, 151, 299, 300, 301, 900}

\* C14 (as stated): every return of a non-root alpha_beta node whose position
\* has repetition count n >= 1 is the repetition return, with the score
\* p(e) * (n + 1) for the static evaluation e of the side to move.
C14_RepetitionPenalty ==
    (trace.op \in ReturnOps /\ ~trace.frame.is_root /\ is_repetition(board) >= 1) =>
        /\ trace.op = "repetition_return"
        /\ ret.score = StatedPenalty(evaluate_position(board)) * (is_repetition(board) + 1)

\* C14 (amended): a non-root alpha_beta node that is not terminated, is below
\* MAX_PLY and has depth > 0 after the check extension, and whose position has
\* repetition count n >= 1 and static evaluation e, returns p(e) * (n + 1)
\* without probing the table or making a move; the score is never positive,
\* is strictly negative when e >= 300, and p(e) * (n + 1) is non-increasing
\* in e.
C14_RepetitionPenaltyAtTest ==
    /\ [](trace.op = "repetition_return" =>
            /\ ~trace.frame.is_root
            /\ is_repetition(board) >= 1
            /\ ret.score = StatedPenalty(evaluate_position(board)) * (is_repetition(board) + 1)
            /\ ret.score <= 0
            /\ (evaluate_position(board) >= 300 => ret.score < 0))
    /\ []((/\ trace.op \in ReturnOps \ {"terminated_return", "probe_terminated_return",
                                         "max_ply_return", "quiescence_return"}
           /\ ~trace.frame.is_root
           /\ is_repetition(board) >= 1) => trace.op = "repetition_return")
    /\ [][trace'.op = "repetition_return" =>
            /\ board' = board
            /\ tt' = tt
            /\ thread_local_data'.tt_batch = thread_local_data.tt_batch
            /\ stack' = SubSeq(stack, 1, Len(stack) - 1)
            /\ search_info'.terminate = "Nothing"
            /\ search_info'.ply < MAX_PLY
            /\ trace'.frame.depth > 0]_vars
    /\ [](\A e1, e2 \in PenaltyEvals : \A n \in 1..3 :
            e1 <= e2 => repetition_penalty(e2, n) <= repetition_penalty(e1, n))

\* a repeated position in which the side to move is 300 centipawns or more
\* ahead was penalised
C14_Witness ==
    /\ trace.op = "repetition_return"
    /\ evaluate_position(board) >= 300
    /\ ret.score = -300

(***************************************************************************)
(* The MAX_PLY boundary (search/alpha_beta.rs 58-64)                       *)
(***************************************************************************)
\* C15: an alpha_beta entered with search_info.ply >= MAX_PLY in a search that
\* is not terminated returns the static evaluation of the position without
\* probing the table, generating moves, making a move or calling anything;
\* search_info.ply never exceeds MAX_PLY.
C15_MaxPlyBoundary ==
    /\ [](search_info.ply <= MAX_PLY)
    /\ [][(/\ At({"entry"})
           /\ stack[Len(stack)].fn = "alpha_beta"
           /\ search_info.ply >= MAX_PLY
           /\ search_info'.terminate = "Nothing")
          => (/\ trace'.op = "max_ply_return"
              /\ ret'.score = evaluate_position(board)
              /\ board' = board
              /\ tt' = tt
              /\ thread_local_data'.tt_batch = thread_local_data.tt_batch
              /\ thread_local_data'.local_tt_cache = thread_local_data.local_tt_cache
              /\ trace'.frame.move_list = <<>>
              /\ search_info'.nodes = search_info.nodes
              /\ search_info'.ply = search_info.ply
              /\ stack' = SubSeq(stack, 1, Len(stack) - 1))]_vars
    /\ [](trace.op = "max_ply_return" => search_info.ply >= MAX_PLY)

\* a node entered at MAX_PLY returned the static evaluation
C15_Witness ==
    /\ trace.op = "max_ply_return"
    /\ search_info.ply = MAX_PLY
    /\ search_info.terminate = "Nothing"
    /\ ret.score = evaluate_position(board)

(***************************************************************************)
(* The engine's handling of UCI reports (engine/comm_reports.rs,           *)
(* engine/utils.rs).  A text is the sequence of its characters.            *)
(***************************************************************************)
FileLetters == <<"a", "b", "c", "d", "e", "f", "g", "h">>
RankDigits == <<"1", "2", "3", "4", "5", "6", "7", "8">>
Digits == <<"0", "1", "2", "3", "4", "5", "6", "7", "8", "9">>

\* The place of a character in a sequence of characters, 0 if it is not there
IndexIn(seq, ch) ==
    IF \E i \in 1..Len(seq) : seq[i] = ch THEN CHOOSE i \in 1..Len(seq) : seq[i] = ch ELSE 0

\* the promotion piece of a letter, NONE for any other character
PromotionOf(ch) ==
    CASE ch = "q" -> QUEEN [] ch = "r" -> ROOK [] ch = "b" -> BISHOP [] ch = "n" -> KNIGHT
      [] OTHER -> NONE

\* parse::algebraic_move_to_number: from, to and promoted of a move text such
\* as e2e4 or b7b8q (an Option, here a sequence of at most one element)
algebraic_move_to_number(m) ==
    IF /\ Len(m) \in {4, 5}
       /\ IndexIn(FileLetters, m[1]) > 0 /\ IndexIn(RankDigits, m[2]) > 0
       /\ IndexIn(FileLetters, m[3]) > 0 /\ IndexIn(RankDigits, m[4]) > 0
       /\ (Len(m) = 5 => PromotionOf(m[5]) # NONE)
    THEN <<[from |-> 8 * (IndexIn(RankDigits, m[2]) - 1) + IndexIn(FileLetters, m[1]) - 1,
            to |-> 8 * (IndexIn(RankDigits, m[4]) - 1) + IndexIn(FileLetters, m[3]) - 1,
            promoted |-> IF Len(m) = 5 THEN PromotionOf(m[5]) ELSE NONE]>>
    ELSE <<>>

\* Engine::pseudo_legal: the first generated move with the from, to and
\* promoted of the potential move (a Result, here a sequence of at most one)
pseudo_legal(m, b) ==
    LET ml == generate_moves(b)
        hits == {i \in 1..Len(ml) : /\ m.from = ml[i].from
                                    /\ m.to = ml[i].to
                                    /\ m.promoted = ml[i].promoted}
    IN  IF hits = {} THEN <<>> ELSE <<ml[CHOOSE i \in hits : \A k \in hits : i <= k]>>

\* Engine::execute_move: [board, legal]
execute_move(b, m) ==
    LET parsed == algebraic_move_to_number(m)
        potential_move == IF parsed = <<>> THEN [from |-> 0, to |-> 0, promoted |-> 0]
                          ELSE parsed[1]
        is_pseudo_legal == pseudo_legal(potential_move, b)
    IN  IF is_pseudo_legal # <<>> THEN make(b, is_pseudo_legal[1])
        ELSE [board |-> b, legal |-> FALSE]

\* CommControl::InfoString: the message sent, with the text it starts with
InfoString(text, msg) == [text |-> text, msg |-> msg]

RECURSIVE position_moves(_, _, _)

\* the loop that goes on after a move was refused
position_moved_no_break(done, moves, sent) ==
    IF ~done.legal
    THEN position_moves(done.board, Tail(moves),
                        Append(sent, InfoString(Head(moves), "NOT_LEGAL")))
    ELSE position_moves(done.board, Tail(moves), sent)

\* UciReport::Position, lines 128-133: the move was executed; a refused move
\* is reported and ends the loop
position_moved(done, moves, sent) ==
    IF ~done.legal
    THEN [board |-> done.board, sent |-> Append(sent, InfoString(Head(moves), "NOT_LEGAL"))]
    ELSE position_moves(done.board, Tail(moves), sent)

\* UciReport::Position, the loop over the moves: [board, sent]
position_moves(b, moves, sent) ==
    IF moves = <<>> THEN [board |-> b, sent |-> sent]
    ELSE position_moved(execute_move(b, Head(moves)), moves, sent)

\* The value of a sequence of decimal digits
RECURSIVE DecimalValue(_)
DecimalValue(digits) ==
    IF digits = <<>> THEN 0
    ELSE 10 * DecimalValue(SubSeq(digits, 1, Len(digits) - 1))
         + IndexIn(Digits, digits[Len(digits)]) - 1

\* str::parse::<i16>: an optional sign and decimal digits, within the range of
\* i16 (a Result, here a sequence of at most one element)
parse_i16(value) ==
    LET signed == value # <<>> /\ value[1] \in {"+", "-"}
        digits == IF signed THEN Tail(value) ELSE value
        v == IF value # <<>> /\ value[1] = "-" THEN -DecimalValue(digits)
             ELSE DecimalValue(digits)
    IN  IF digits = <<>> \/ Len(digits) > 5
           \/ \E i \in 1..Len(digits) : IndexIn(Digits, digits[i]) = 0
        THEN <<>>
        ELSE IF v < -32768 \/ v > 32767 THEN <<>> ELSE <<v>>

\* comm_reports_uci, lines 50-54: the SearchParams every search is started with
search_params_of(s) ==
    [SearchParams_new EXCEPT !.quiet = s.quiet, !.sharp_margin = s.sharp_margin]

(***************************************************************************)
(* Specifications SpecPosition and SpecOptions: the engine receives        *)
(* position reports, and setoption SharpMargin and go reports, in any      *)
(* order.  A position report touches the Board only and the other two the  *)
(* Settings and the SearchParams only, so the two are explored apart.      *)
(***************************************************************************)
\* The longest list of moves of a position report
MaxMoves == 2

PositionFens ==
    {"k7/8/1K6/8/8/8/8/7R w - - 0 1", "r6k/1P6/8/8/8/8/8/K7 w - - 0 1",
     "8/8/8/8/1k1pP3/8/8/4K3 b - e3 0 1", "r3k3/8/8/8/3p4/8/4P3/R3K2R w KQq - 0 1"}

\* Move texts for each position: legal moves of either side, moves that leave
\* the king attacked, moves no piece can make, a promotion without its piece
\* and a text that is no move
MoveTextsOf(fen) ==
    CASE fen = "k7/8/1K6/8/8/8/8/7R w - - 0 1" ->
            {<<"h", "1", "h", "2">>, <<"h", "1", "h", "8">>, <<"a", "8", "b", "8">>,
             <<"a", "8", "a", "7">>, <<"h", "1", "h", "9">>}
      [] fen = "r6k/1P6/8/8/8/8/8/K7 w - - 0 1" ->
            {<<"b", "7", "b", "8", "q">>, <<"b", "7", "b", "8">>, <<"b", "7", "a", "8", "n">>,
             <<"h", "8", "g", "8">>, <<"h", "8", "h", "7">>}
      [] fen = "8/8/8/8/1k1pP3/8/8/4K3 b - e3 0 1" ->
            {<<"d", "4", "e", "3">>, <<"d", "4", "d", "3">>, <<"e", "1", "e", "2">>,
             <<"b", "4", "b", "3">>, <<"e", "4", "e", "5">>}
      [] OTHER ->
            {<<"e", "1", "g", "1">>, <<"e", "1", "c", "1">>, <<"e", "2", "e", "4">>,
             <<"d", "4", "e", "3">>, <<"e", "8", "c", "8">>}

MoveListsOf(fen) == UNION {[1..n -> MoveTextsOf(fen)] : n \in 0..MaxMoves}

OptionValues ==
    {<<"5", "0">>, <<"0">>, <<"1", "0", "0">>, <<"-", "5">>, <<"5", "0", "0">>,
     <<"a", "b">>, <<>>, <<"4", "0", "0", "0", "0">>, <<"7", ".", "5">>}

InitEngine ==
    /\ board = fen_read("k7/8/1K6/8/8/8/8/7R w - - 0 1")
    /\ trace = [op |-> "init", fen |-> "", moves |-> <<>>, value |-> <<>>, sent |-> <<>>]
    /\ NoSearch

\* UciReport::Position(fen, moves), lines 123-135, with a FEN that fen_read
\* accepts: what the handler does for every report, worked out once
RECURSIVE position_reports(_, _)
position_reports(fen, lists) ==
    IF lists = {} THEN <<>>
    ELSE LET moves == CHOOSE l \in lists : TRUE
         IN  (moves :> position_moves(fen_read(fen), moves, <<>>))
             @@ position_reports(fen, lists \ {moves})

RECURSIVE position_reports_of(_)
position_reports_of(fens) ==
    IF fens = {} THEN <<>>
    ELSE LET fen == CHOOSE f \in fens : TRUE
         IN  (fen :> position_reports(fen, MoveListsOf(fen))) @@ position_reports_of(fens \ {fen})

position_report == position_reports_of(PositionFens)

Position ==
    \E fen \in PositionFens : \E moves \in MoveListsOf(fen) :
        /\ board' = position_report[fen][moves].board
        /\ trace' = [op |-> "position", fen |-> fen, moves |-> moves, value |-> <<>>,
                     sent |-> position_report[fen][moves].sent]
        /\ UNCHANGED searchVars

\* UciReport::SetOption(EngineOptionName::SharpMargin(value))
SetOptionSharpMargin ==
    \E value \in OptionValues :
        /\ settings' = IF parse_i16(value) # <<>>
                       THEN [settings EXCEPT !.sharp_margin = parse_i16(value)[1]]
                       ELSE settings
        /\ trace' = [op |-> "setoption", fen |-> "", moves |-> <<>>, value |-> value,
                     sent |-> IF parse_i16(value) # <<>> THEN <<>>
                              ELSE <<InfoString(<<>>, "NOT_INT")>>]
        /\ UNCHANGED <<board, stack, ret, search_info, search_params, thread_local_data,
                       tt, tt_enabled, env>>

\* UciReport::GoInfinite: the search is started with the parameters of lines 50-54
GoInfinite ==
    /\ search_params' = search_params_of(settings)
    /\ trace' = [op |-> "go", fen |-> "", moves |-> <<>>, value |-> <<>>, sent |-> <<>>]
    /\ UNCHANGED <<board, stack, ret, search_info, thread_local_data, tt, tt_enabled, env,
                   settings>>

NextPosition == Position

SpecPosition == InitEngine /\ [][NextPosition]_vars

NextOptions ==
    \/ SetOptionSharpMargin
    \/ GoInfinite

SpecOptions == InitEngine /\ [][NextOptions]_vars

(***************************************************************************)
(* Properties of the engine                                                *)
(***************************************************************************)
\* The text of a move: squares as file letter and rank digit, then the letter
\* of the promotion piece
TextOf(mv) ==
    <<FileLetters[FileOf(mv.from) + 1], RankDigits[RankOf(mv.from) + 1],
      FileLetters[FileOf(mv.to) + 1], RankDigits[RankOf(mv.to) + 1]>>
    \o (CASE mv.promoted = QUEEN -> <<"q">> [] mv.promoted = ROOK -> <<"r">>
          [] mv.promoted = BISHOP -> <<"b">> [] mv.promoted = KNIGHT -> <<"n">>
          [] OTHER -> <<>>)

\* The pseudo-legal moves of b with the text m that make accepts
LegalMovesOf(b, m) ==
    LET ml == generate_moves(b)
    IN  {ml[k] : k \in {i \in 1..Len(ml) : TextOf(ml[i]) = m /\ make(b, ml[i]).legal}}

\* The number of leading moves of the list that are legal, each in the
\* position the ones before it lead to
RECURSIVE LegalPrefix(_, _)
LegalPrefix(b, moves) ==
    IF moves = <<>> THEN 0
    ELSE LET legal == LegalMovesOf(b, Head(moves))
         IN  IF legal = {} THEN 0
             ELSE 1 + LegalPrefix(make(b, CHOOSE mv \in legal : TRUE).board, Tail(moves))

\* The position after the first n moves of the list, all legal, were made from b
RECURSIVE AfterMoves(_, _, _)
AfterMoves(b, moves, n) ==
    IF n = 0 THEN b
    ELSE AfterMoves(make(b, CHOOSE mv \in LegalMovesOf(b, Head(moves)) : TRUE).board,
                    Tail(moves), n - 1)

\* The outcome of a position report of which the first n moves are legal
PositionAsStated(fen, moves, n) ==
    /\ board = AfterMoves(fen_read(fen), moves, n)
    /\ trace.sent = IF n = Len(moves) THEN <<>>
                    ELSE <<InfoString(moves[n + 1], "NOT_LEGAL")>>

\* C16: after position(fen, moves) with a valid FEN the Position is the FEN
\* position with exactly the moves before the first illegal one made, in the
\* order of the list; if there is an illegal move exactly one info string, the
\* NOT_LEGAL warning naming that move, was sent, and none otherwise.
C16_PositionIllegalMove ==
    trace.op = "position" =>
        PositionAsStated(trace.fen, trace.moves,
                         LegalPrefix(fen_read(trace.fen), trace.moves))

\* a legal move was made, the move after it was refused by make, and the
\* warning was sent
C16_Witness ==
    /\ trace.op = "position"
    /\ trace.moves = <<<<"h", "1", "h", "2">>, <<"a", "8", "a", "7">>>>
    /\ board.bb_pieces[WHITE][ROOK] = {15}
    /\ board.bb_pieces[BLACK][KING] = {56}
    /\ History_len(board.history) = 1
    /\ Len(trace.sent) = 1

\* C17: setoption SharpMargin stores a value only if it is an integer in
\* 0..=100; any other value leaves settings.sharp_margin unchanged, and every
\* search is started with a sharp_margin within 0..=100.
C17_SharpMarginRange ==
    /\ settings.sharp_margin \in SHARP_MARGIN_MIN..SHARP_MARGIN_MAX
    /\ search_params.sharp_margin \in SHARP_MARGIN_MIN..SHARP_MARGIN_MAX

(***************************************************************************)
(* Specification SpecTime: Search::out_of_time (search/time.rs 69-90) is   *)
(* asked while the timer of a search with some allocated time runs.        *)
(***************************************************************************)
\* Allocated times on both sides of every threshold, in milliseconds
Allocations == {1, 400, 500, 501, 1000, 1001, 2000, 2001, 2005, 5000, 5001, 6000}

\* Timer readings on both sides of the limits of these allocations
TimerReadings ==
    {0, 1, 400, 420, 439, 440, 500, 550, 551, 1000, 1100, 1201, 2400, 2401, 2606, 2607,
     6500, 7501, 7502, 9000}

InitTime ==
    \E allocated \in Allocations :
        /\ board = Board_new
        /\ stack = <<>>
        /\ ret = [score |-> 0, pv |-> <<>>, good_replies |-> 0, reply |-> <<>>,
                  reply_sequence |-> <<>>]
        /\ search_info = [SearchInfo_new EXCEPT !.allocated_time = allocated]
        /\ search_params = SearchParams_new
        /\ thread_local_data = ThreadLocalData_new
        /\ tt = <<>>
        /\ tt_enabled = TRUE
        /\ env = [elapsed |-> 0]
        /\ settings = Settings_new
        /\ trace = [op |-> "timer_start", result |-> FALSE]

\* the timer runs on
TimerElapses ==
    /\ \E t \in TimerReadings : t > env.elapsed /\ env' = [elapsed |-> t]
    /\ trace' = [op |-> "timer_elapsed", result |-> FALSE]
    /\ UNCHANGED <<board, stack, ret, search_info, search_params, thread_local_data, tt,
                   tt_enabled, settings>>

\* Search::out_of_time
OutOfTime ==
    /\ trace' = [op |-> "out_of_time", result |-> out_of_time(search_info, env.elapsed)]
    /\ UNCHANGED <<board, stack, ret, search_info, search_params, thread_local_data, tt,
                   tt_enabled, env, settings>>

NextTime ==
    \/ TimerElapses
    \/ OutOfTime

SpecTime == InitTime /\ [][NextTime]_vars

\* The overshoot factor the contract names for an allocation, in tenths
StatedFactor(allocated) ==
    IF allocated <= VERY_LOW_TIME THEN 11
    ELSE IF allocated <= CRITICAL_TIME THEN 10
    ELSE IF allocated <= LOW_TIME THEN 12
    ELSE IF allocated <= OK_TIME THEN 13
    ELSE 15

\* C20: out_of_time is true exactly when elapsed >= round(f * allocated_time),
\* f being 1.1 for allocated <= 500 ms, 1.0 for allocated <= 1000 ms, 1.2 for
\* allocated <= 2000 ms, 1.3 for allocated <= 5000 ms and 1.5 above; each of
\* the five factors is selected for some allocation; 1000 ms allocated and
\* 1100 ms elapsed give true.
C20_HardTimeCap ==
    trace.op = "out_of_time" =>
        /\ trace.result <=>
               env.elapsed >= (StatedFactor(search_info.allocated_time)
                               * search_info.allocated_time + 5) \div 10
        /\ \A f \in {10, 11, 12, 13, 15} : \E allocated \in Allocations :
               overshoot_factor(allocated) = f
        /\ out_of_time([SearchInfo_new EXCEPT !.allocated_time = 1000], 1100)

(***************************************************************************)
(* Make / unmake balance of the search.  An invocation that waits for a    *)
(* callee has moves made and not yet taken back: one, or two when          *)
(* collect_sharp_sequence follows the line behind its forced reply.  The   *)
(* search is balanced when taking those moves back, the top of the stack   *)
(* first, gives the position the root was called on, and the ply and the   *)
(* history length are off by their number.  An invocation is entered and   *)
(* returns with the same invocations waiting below it, so in a balanced    *)
(* search it returns on the Board and at the ply it was entered with.      *)
(***************************************************************************)
\* The moves an invocation standing at f.pc has made and not taken back
MovesMade(f) ==
    IF f.pc \in {"null_ret", "multicut_ret", "lmr_ret", "pvs_ret", "full_ret",
                 "sharp_eval_ret", "sharp_forced_ret"} THEN 1
    ELSE IF f.pc = "sharp_next_ret" THEN 2
    ELSE 0

RECURSIVE Outstanding(_)
Outstanding(frames) ==
    IF frames = <<>> THEN 0 ELSE MovesMade(Head(frames)) + Outstanding(Tail(frames))

\* The Board with the moves of the invocation standing at f.pc taken back
TakenBack(b, f) ==
    IF f.pc = "null_ret" THEN unmake_null_move(b)
    ELSE IF MovesMade(f) = 2 THEN unmake(unmake(b))
    ELSE IF MovesMade(f) = 1 THEN unmake(b)
    ELSE b

RECURSIVE Unwound(_, _)
Unwound(b, frames) ==
    IF frames = <<>> THEN b
    ELSE Unwound(TakenBack(b, frames[Len(frames)]), SubSeq(frames, 1, Len(frames) - 1))

Balanced ==
    \E sc \in Scenarios :
        /\ search_info.allocated_time = sc.allocated_time
        /\ tt_enabled = sc.tt_enabled
        /\ search_info.ply = sc.ply + Outstanding(stack)
        /\ History_len(board.history) = History_len(sc.pos.history) + Outstanding(stack)
        /\ Unwound(board, stack) = sc.pos

\* The paths on which collect_sharp_sequence returns
SharpReturnOps ==
    {"sharp_return", "sharp_eval_time_up", "sharp_forced_time_up", "sharp_next_time_up"}

C22_SharpSequenceBalance ==
    [](trace.op \in SharpReturnOps => Balanced)

(***************************************************************************)
(* The transposition table as the probe of alpha_beta sees it              *)
(***************************************************************************)
\* The paths alpha_beta takes once the table was probed (lines 104-138)
ProbedOps == {"tt_return", "null_move_call", "begin_moves"}

\* C24: when the global table holds an entry for the key of the node, the
\* probe of alpha_beta answers from that entry, whatever the local cache
\* holds for the key: the table move is the move of the global entry, and the
\* node returns a table value exactly when the global entry gives one at the
\* node's depth and window, and then that value.
C24_LocalCacheDoesNotMask ==
    [][(At({"entry"}) /\ tt_enabled /\ trace'.op \in ProbedOps
          /\ TT_probe(tt, board.game_state.zobrist_key) # <<>>) =>
           LET global == SearchData_get(TT_probe(tt, board.game_state.zobrist_key)[1],
                                        trace'.frame.depth, search_info.ply,
                                        trace'.frame.alpha0, trace'.frame.beta)
           IN  /\ trace'.frame.tt_move = global.best_move
               /\ (trace'.op = "tt_return") = (global.value # <<>> /\ ~trace'.frame.is_root)
               /\ trace'.op = "tt_return" => ret'.score = global.value[1]]_vars

(***************************************************************************)
(* Specification SpecWorker: the transposition-table batch of one worker   *)
(* over its searches.  While it searches the worker stores entries         *)
(* (alpha_beta.rs 377-397); after the search it flushes what is pending,   *)
(* and ThreadLocalData::start_search prepares the next search.  The write  *)
(* lock of the table is poisoned once a thread has panicked while holding  *)
(* it.                                                                     *)
(***************************************************************************)
\* Search::flush_tt_batch with the result of tt.write(): the updates are
\* inserted only under 'if let Ok(..)', the batch is cleared either way
flush_tt_batch_locked(table, batch, write_ok) ==
    IF write_ok THEN flush_tt_batch(table, batch)
    ELSE [tt |-> table, tt_batch |-> IF TTBatch_len(batch) > 0 THEN TTBatch_new ELSE batch]

\* ThreadLocalData::start_search
ThreadLocalData_start_search(data) ==
    [data EXCEPT !.nodes_searched = 0,
                 !.best_move_found = <<>>,
                 !.local_tt_cache = <<>>,
                 !.tt_batch = TTBatch_new]

\* The stores of one run of the worker
MaxStores == 3

\* The entries the worker stores: two positions, searched to two depths
WorkerEntries ==
    {[zobrist_key |-> key, data |-> SearchData_create(depth, 0, "Exact", 10 * depth, NoShortMove)] :
        key \in {{1000}, {1001}}, depth \in {1, 2}}

\* A batch two entries short of full
NearlyFull ==
    [k \in 1..(TT_BATCH_SIZE - 2) |->
        [zobrist_key |-> {1000}, data |-> SearchData_create(1, 0, "Alpha", 0, NoShortMove)]]

InitWorker ==
    /\ board = Board_new
    /\ stack = <<>>
    /\ ret = [score |-> 0, pv |-> <<>>, good_replies |-> 0, reply |-> <<>>,
              reply_sequence |-> <<>>]
    /\ search_info = SearchInfo_new
    /\ search_params = SearchParams_new
    /\ \E pending \in {TTBatch_new, NearlyFull} :
           thread_local_data = [ThreadLocalData_new EXCEPT !.tt_batch = pending]
    /\ tt = <<>>
    /\ tt_enabled = TRUE
    /\ env = [searching |-> TRUE, poisoned |-> FALSE, stores |-> 0]
    /\ settings = Settings_new
    /\ trace = [op |-> "start_search", stored |-> {}]

\* lines 377-397: a node stores its entry; a full batch is flushed
WorkerStore ==
    /\ env.searching
    /\ env.stores < MaxStores
    /\ \E e \in WorkerEntries :
        LET batch == TTBatch_add(thread_local_data.tt_batch, e.zobrist_key, e.data)
            flushed == flush_tt_batch_locked(tt, batch, ~env.poisoned)
        IN  /\ tt' = IF TTBatch_is_full(batch) THEN flushed.tt ELSE tt
            /\ thread_local_data' =
                   [thread_local_data EXCEPT
                       !.tt_batch = IF TTBatch_is_full(batch) THEN flushed.tt_batch ELSE batch]
            /\ trace' = [op |-> "store", stored |-> {e}]
    /\ env' = [env EXCEPT !.stores = @ + 1]
    /\ UNCHANGED <<board, stack, ret, search_info, search_params, tt_enabled, settings>>

\* the search is over: the worker's last flush
WorkerFlush ==
    /\ env.searching
    /\ tt' = flush_tt_batch_locked(tt, thread_local_data.tt_batch, ~env.poisoned).tt
    /\ thread_local_data' =
           [thread_local_data EXCEPT
               !.tt_batch = flush_tt_batch_locked(tt, @, ~env.poisoned).tt_batch]
    /\ env' = [env EXCEPT !.searching = FALSE]
    /\ trace' = [op |-> "flush", stored |-> {}]
    /\ UNCHANGED <<board, stack, ret, search_info, search_params, tt_enabled, settings>>

\* the next search begins
WorkerStartSearch ==
    /\ ~env.searching
    /\ thread_local_data' = ThreadLocalData_start_search(thread_local_data)
    /\ env' = [env EXCEPT !.searching = TRUE]
    /\ trace' = [op |-> "start_search", stored |-> {}]
    /\ UNCHANGED <<board, stack, ret, search_info, search_params, tt, tt_enabled, settings>>

\* a thread panics while it holds the write lock of the table
WriterPanics ==
    /\ ~env.poisoned
    /\ env' = [env EXCEPT !.poisoned = TRUE]
    /\ trace' = [op |-> "writer_panics", stored |-> {}]
    /\ UNCHANGED <<board, stack, ret, search_info, search_params, thread_local_data, tt,
                   tt_enabled, settings>>

NextWorker ==
    \/ WorkerStore
    \/ WorkerFlush
    \/ WorkerStartSearch
    \/ WriterPanics

SpecWorker == InitWorker /\ [][NextWorker]_vars

\* The updates a batch or the table holds
Updates(entries) == {entries[i] : i \in 1..Len(entries)}

\* C23: no step empties the batch of an update that is not in the global
\* table afterwards: every update that was pending or was added in the step,
\* and is no longer pending after it, has been inserted.
C23_NoLostTTUpdates ==
    [][(Updates(thread_local_data.tt_batch) \cup trace'.stored)
           \ Updates(thread_local_data'.tt_batch) \subseteq Updates(tt')]_vars

(***************************************************************************)
(* The history of the Board of a search thread (board/history.rs 50-78,    *)
(* board.rs 500-513)                                                       *)
(***************************************************************************)
\* C25: on the Board of a search thread the number of stored snapshots never
\* exceeds the capacity of the history of a clone, it follows
\* search_info.ply (every push goes with ply += 1 and every pop with
\* ply -= 1, and no move is made at MAX_PLY), and it never falls below zero:
\* no pop happens on an empty history.
C25_HistoryWithinBounds ==
    /\ [](History_len(board.history) <= SEARCH_HISTORY_CAPACITY)
    /\ [][History_len(board.history') - History_len(board.history)
               = search_info'.ply - search_info.ply]_vars
    /\ [](History_len(board.history) >= 0 /\ Len(board.history.list) = History_len(board.history))

\* a node at MAX_PLY of a search thread: the history holds MAX_PLY snapshots
C25_Witness ==
    /\ trace.op = "max_ply_return"
    /\ board.history.capacity = SEARCH_HISTORY_CAPACITY
    /\ History_len(board.history) = MAX_PLY

(***************************************************************************)
(* Specification SpecHash: the engine receives setoption Hash and          *)
(* setoption Threads reports in any order (engine/comm_reports.rs 69-117). *)
(* env.megabytes is the size the transposition table was last given.       *)
(***************************************************************************)
\* str::parse::<usize>: an optional plus sign and decimal digits (a Result,
\* here a sequence of at most one element); the values sent stay far below
\* usize::MAX
parse_usize(value) ==
    LET digits == IF value # <<>> /\ value[1] = "+" THEN Tail(value) ELSE value
    IN  IF digits = <<>> \/ \E i \in 1..Len(digits) : IndexIn(Digits, digits[i]) = 0
        THEN <<>>
        ELSE <<DecimalValue(digits)>>

ThreadValues == {<<"1">>, <<"2">>, <<"6", "4">>, <<"6", "5">>, <<"0">>, <<"x">>, <<"+", "8">>}

\* The engine as started with a table of tt_size MiB: the search manager is
\* initialised with tt_size > 0
InitHash ==
    /\ board = fen_read("k7/8/1K6/8/8/8/8/7R w - - 0 1")
    /\ stack = <<>>
    /\ ret = [score |-> 0, pv |-> <<>>, good_replies |-> 0, reply |-> <<>>,
              reply_sequence |-> <<>>]
    /\ search_info = SearchInfo_new
    /\ search_params = SearchParams_new
    /\ thread_local_data = ThreadLocalData_new
    /\ tt = <<>>
    /\ \E tt_size \in {0, Settings_new.tt_size} :
           /\ settings = [Settings_new EXCEPT !.tt_size = tt_size]
           /\ env = [megabytes |-> tt_size]
           /\ tt_enabled = (tt_size > 0)
    /\ trace = [op |-> "init", value |-> <<>>, sent |-> <<>>]

\* UciReport::SetOption(EngineOptionName::Hash(value)), lines 69-76
SetOptionHash ==
    \E value \in OptionValues :
        /\ env' = IF parse_usize(value) # <<>>
                  THEN [env EXCEPT !.megabytes = parse_usize(value)[1]]
                  ELSE env
        /\ tt' = IF parse_usize(value) # <<>> THEN <<>> ELSE tt
        /\ trace' = [op |-> "setoption_hash", value |-> value,
                     sent |-> IF parse_usize(value) # <<>> THEN <<>>
                              ELSE <<InfoString(<<>>, "NOT_INT")>>]
        /\ UNCHANGED <<board, stack, ret, search_info, search_params, thread_local_data,
                       tt_enabled, settings>>

\* what the Threads handler does with a parsed value, lines 94-112
threads_set(s, enabled, v) ==
    IF v >= 1 /\ v <= 64
    THEN [settings |-> [s EXCEPT !.threads = v], tt_enabled |-> s.tt_size > 0, sent |-> <<>>]
    ELSE [settings |-> s, tt_enabled |-> enabled, sent |-> <<InfoString(<<>>, "THREAD_COUNT")>>]

\* UciReport::SetOption(EngineOptionName::Threads(value)), lines 93-117
SetOptionThreads ==
    \E value \in ThreadValues :
        LET done == IF parse_usize(value) # <<>>
                    THEN threads_set(settings, tt_enabled, parse_usize(value)[1])
                    ELSE [settings |-> settings, tt_enabled |-> tt_enabled,
                          sent |-> <<InfoString(<<>>, "NOT_INT")>>]
        IN  /\ settings' = done.settings
            /\ tt_enabled' = done.tt_enabled
            /\ trace' = [op |-> "setoption_threads", value |-> value, sent |-> done.sent]
            /\ UNCHANGED <<board, stack, ret, search_info, search_params, thread_local_data,
                           tt, env>>

NextHash ==
    \/ SetOptionHash
    \/ SetOptionThreads

SpecHash == InitHash /\ [][NextHash]_vars

\* C26: after any sequence of setoption Hash and setoption Threads reports
\* the tt_enabled flag of the search manager is true iff the current size of
\* the transposition table is greater than 0 MiB.
C26_TTEnabledFollowsHash ==
    tt_enabled = (env.megabytes > 0)

(***************************************************************************)
(* Board::in_check (board.rs 179-265)                                      *)
(***************************************************************************)
\* Board::get_attacks_from: the squares a piece of the side not to move
\* attacks from `square`; the sliding pieces fall to the arm that returns 0
get_attacks_from(b, piece, square) ==
    CASE piece = KING -> Jumps(square, {<<1, 0>>, <<1, 1>>, <<0, 1>>, <<-1, 1>>,
                                        <<-1, 0>>, <<-1, -1>>, <<0, -1>>, <<1, -1>>})
      [] piece = KNIGHT -> Jumps(square, {<<-2, -1>>, <<-2, 1>>, <<-1, -2>>, <<-1, 2>>,
                                          <<1, -2>>, <<1, 2>>, <<2, -1>>, <<2, 1>>})
      [] piece = PAWN -> Jumps(square, IF us(b) = WHITE THEN {<<-1, -1>>, <<1, -1>>}
                                       ELSE {<<-1, 1>>, <<1, 1>>})
      [] OTHER -> {}

\* Board::in_check
in_check(b) ==
    \E piece \in PieceTypes : \E from \in b.bb_pieces[opponent(b)][piece] :
        king_square(b, us(b)) \in get_attacks_from(b, piece, from)

\* C27: in every position with both kings on the board in_check() is true iff
\* the king of the side to move stands on a square attacked by a piece of the
\* other side, sliders taking blockers into account.
C27_InCheckAgreesWithAttacks ==
    (\A side \in Sides : board.bb_pieces[side][KING] # {}) =>
        (in_check(board) <=> square_attacked(board, opponent(board),
                                             king_square(board, us(board))))

(***************************************************************************)
(* Specification SpecPawns: pawns of either side put on and removed from   *)
(* a few squares of a Board with kings only, and backward_pawns (bits.rs   *)
(* 175-226) applied to the two pawn bitboards.  trace.backward is what the *)
(* last call returned.                                                     *)
(***************************************************************************)
\* d3, d4, e4, d5, d6, f6
PawnSquares == {19, 27, 28, 35, 43, 45}

InitPawns ==
    /\ board = fen_read("8/8/8/8/8/8/2k5/K7 w - - 0 1")
    /\ trace = [op |-> "fen_read", side |-> WHITE, backward |-> {}]
    /\ NoSearch

PawnPut ==
    \E side \in Sides, square \in PawnSquares :
        /\ square \notin occupancy(board)
        /\ board' = put_piece(board, side, PAWN, square)
        /\ trace' = [op |-> "put_piece", side |-> side, backward |-> {}]
        /\ UNCHANGED searchVars

PawnRemoved ==
    \E side \in Sides, square \in PawnSquares :
        /\ square \in board.bb_pieces[side][PAWN]
        /\ board' = remove_piece(board, side, PAWN, square)
        /\ trace' = [op |-> "remove_piece", side |-> side, backward |-> {}]
        /\ UNCHANGED searchVars

BackwardPawns ==
    \E side \in Sides :
        /\ trace' = [op |-> "backward_pawns", side |-> side,
                     backward |-> backward_pawns(board.bb_pieces[side][PAWN],
                                                 board.bb_pieces[1 - side][PAWN],
                                                 side = WHITE)]
        /\ UNCHANGED board
        /\ UNCHANGED searchVars

NextPawns ==
    \/ PawnPut
    \/ PawnRemoved
    \/ BackwardPawns

SpecPawns == InitPawns /\ [][NextPawns]_vars

\* The square in front of a pawn of the side is attacked by an enemy pawn
AdvanceAttacked(p, enemy_pawns, is_white) ==
    \E e \in enemy_pawns :
        /\ FileOf(e) - FileOf(p) \in {-1, 1}
        /\ RankOf(e) - RankOf(p) = IF is_white THEN 2 ELSE -2

\* An own pawn on an adjacent file, on the same rank as p or behind it
Supported(p, own_pawns, is_white) ==
    \E q \in own_pawns :
        /\ FileOf(q) - FileOf(p) \in {-1, 1}
        /\ IF is_white THEN RankOf(q) <= RankOf(p) ELSE RankOf(q) >= RankOf(p)

\* C28: backward_pawns returns exactly the own pawns whose advance square is
\* attacked by an enemy pawn and that have no own pawn on an adjacent file on
\* the same rank or behind them.
C28_BackwardPawns ==
    trace.op = "backward_pawns" =>
        trace.backward =
            {p \in board.bb_pieces[trace.side][PAWN] :
                /\ AdvanceAttacked(p, board.bb_pieces[1 - trace.side][PAWN], trace.side = WHITE)
                /\ ~Supported(p, board.bb_pieces[trace.side][PAWN], trace.side = WHITE)}

(***************************************************************************)
(* Unsigned integers of the machine (usize, u128) as sequences of 16-bit   *)
(* limbs, the lowest first.  An operation gives [value, overflow]: the     *)
(* wrapped result and whether the exact result was out of range.  A build  *)
(* with overflow checks panics where overflow is set, a build without them *)
(* goes on with the wrapped value.                                         *)
(***************************************************************************)
Limb == 2^16

\* The limbs of usize on a 64-bit target, and of u128
USIZE_LIMBS == 64 \div 16

U128_LIMBS == 128 \div 16

Builds == {"overflow_checks", "wrapping"}

\* The number n (below 2^31) in `limbs` limbs
Wide(n, limbs) ==
    [i \in 1..limbs |-> IF i = 1 THEN n % Limb ELSE IF i = 2 THEN n \div Limb ELSE 0]

RECURSIVE Wide_sub_from(_, _, _, _)
Wide_sub_from(a, b, i, borrow) ==
    IF i > Len(a) THEN [value |-> <<>>, overflow |-> borrow = 1]
    ELSE LET rest == Wide_sub_from(a, b, i + 1, IF a[i] - b[i] - borrow < 0 THEN 1 ELSE 0)
         IN  [value |-> <<(a[i] - b[i] - borrow) % Limb>> \o rest.value,
              overflow |-> rest.overflow]

\* a - b
Wide_sub(a, b) == Wide_sub_from(a, b, 1, 0)

RECURSIVE Wide_add_from(_, _, _, _)
Wide_add_from(a, b, i, carry) ==
    IF i > Len(a) THEN [value |-> <<>>, overflow |-> carry = 1]
    ELSE LET rest == Wide_add_from(a, b, i + 1, (a[i] + b[i] + carry) \div Limb)
         IN  [value |-> <<(a[i] + b[i] + carry) % Limb>> \o rest.value,
              overflow |-> rest.overflow]

\* a + b
Wide_add(a, b) == Wide_add_from(a, b, 1, 0)

\* a / 2
Wide_half(a) ==
    [i \in 1..Len(a) |-> a[i] \div 2 + (IF i < Len(a) THEN (a[i + 1] % 2) * (Limb \div 2) ELSE 0)]

RECURSIVE Wide_less_from(_, _, _)
Wide_less_from(a, b, i) ==
    IF i = 0 THEN FALSE
    ELSE IF a[i] # b[i] THEN a[i] < b[i]
    ELSE Wide_less_from(a, b, i - 1)

\* a < b
Wide_less(a, b) == Wide_less_from(a, b, Len(a))

\* a.max(b)
Wide_max(a, b) == IF Wide_less(a, b) THEN b ELSE a


(***************************************************************************)
(* Specification SpecMovesToGo: Search::moves_to_go (search/time.rs        *)
(* 167-191) is asked on Boards of either side to move, with few and with   *)
(* many pieces, while the history grows.  trace.result is what the last    *)
(* call gave: whether it panicked, the value returned, and whether a step  *)
(* of the computation left the range of usize.                             *)
(***************************************************************************)
OPENING_MOVES == 10
MIDDLEGAME_MOVES == 30
DEFAULT_GAME_LENGTH == 25
MOVES_BUFFER == 3

\* Search::count_pieces_on_board
count_pieces_on_board(b) ==
    SumOf([k \in 0..11 |-> Cardinality(b.bb_pieces[k \div 6][k % 6])], 0..11)

\* Search::estimate_game_phase
estimate_game_phase(b) ==
    IF History_len(b.history) < OPENING_MOVES * 2 THEN "Opening"
    ELSE IF History_len(b.history) < MIDDLEGAME_MOVES * 2 THEN "Middlegame"
    ELSE IF count_pieces_on_board(b) > 8 THEN "Endgame"
    ELSE "LateEndgame"

\* lines 177-179: moves_made = if white { ply / 2 } else { (ply - 1) / 2 }
moves_made(b) ==
    IF us(b) = WHITE
    THEN [value |-> Wide_half(Wide(History_len(b.history), USIZE_LIMBS)), overflow |-> FALSE]
    ELSE [value |-> Wide_half(Wide_sub(Wide(History_len(b.history), USIZE_LIMBS),
                                       Wide(1, USIZE_LIMBS)).value),
          overflow |-> Wide_sub(Wide(History_len(b.history), USIZE_LIMBS),
                                Wide(1, USIZE_LIMBS)).overflow]

\* lines 182-187: the game length the phase stands for
phase_length(phase) ==
    CASE phase = "Opening" -> DEFAULT_GAME_LENGTH
      [] phase = "Middlegame" -> (DEFAULT_GAME_LENGTH * 3) \div 4
      [] phase = "Endgame" -> DEFAULT_GAME_LENGTH \div 2
      [] phase = "LateEndgame" -> DEFAULT_GAME_LENGTH \div 4

\* lines 182-187: length - moves_made + MOVES_BUFFER, from left to right
estimated_moves(length, made) ==
    [value |-> Wide_add(Wide_sub(Wide(length, USIZE_LIMBS), made.value).value,
                        Wide(MOVES_BUFFER, USIZE_LIMBS)).value,
     overflow |-> \/ made.overflow
                  \/ Wide_sub(Wide(length, USIZE_LIMBS), made.value).overflow
                  \/ Wide_add(Wide_sub(Wide(length, USIZE_LIMBS), made.value).value,
                              Wide(MOVES_BUFFER, USIZE_LIMBS)).overflow]

\* Search::moves_to_go; supplied is game_time.moves_to_go, an Option
moves_to_go(b, supplied, build) ==
    LET estimated == estimated_moves(phase_length(estimate_game_phase(b)), moves_made(b))
    IN  IF supplied # <<>>
        THEN [panicked |-> FALSE, value |-> Wide(supplied[1], USIZE_LIMBS), overflow |-> FALSE]
        ELSE IF estimated.overflow /\ build = "overflow_checks"
        THEN [panicked |-> TRUE, value |-> Wide(0, USIZE_LIMBS), overflow |-> TRUE]
        ELSE [panicked |-> FALSE, value |-> Wide_max(estimated.value, Wide(5, USIZE_LIMBS)),
              overflow |-> estimated.overflow]

\* History lengths on both sides of the limits of the phases and of the
\* estimated game lengths
HistoryLengths == {0, 1, 2, 19, 20, 21, 37, 38, 43, 44, 56, 59, 60, 61}

\* Kings only, and kings with eight pawns
TimePlacements ==
    {{<<WHITE, KING, 4>>, <<BLACK, KING, 60>>},
     {<<WHITE, KING, 4>>, <<BLACK, KING, 60>>} \cup {<<WHITE, PAWN, sq>> : sq \in 8..11}
         \cup {<<BLACK, PAWN, sq>> : sq \in 48..51}}

InitMovesToGo ==
    /\ \E placements \in TimePlacements, side \in Sides :
           board = AtPly(SetUp(placements, side, 0, EP_NONE), 0)
    /\ trace = [op |-> "init", supplied |-> <<>>, build |-> "wrapping",
                result |-> [panicked |-> FALSE, value |-> Wide(0, USIZE_LIMBS),
                            overflow |-> FALSE]]
    /\ NoSearch

\* the history has grown
HistoryGrows ==
    /\ \E n \in HistoryLengths :
           /\ n > History_len(board.history)
           /\ board' = AtPly(board, n)
    /\ trace' = [trace EXCEPT !.op = "history_grows"]
    /\ UNCHANGED searchVars

MovesToGo ==
    /\ \E supplied \in {<<>>, <<1>>}, build \in Builds :
           trace' = [op |-> "moves_to_go", supplied |-> supplied, build |-> build,
                     result |-> moves_to_go(board, supplied, build)]
    /\ UNCHANGED board
    /\ UNCHANGED searchVars

NextMovesToGo ==
    \/ HistoryGrows
    \/ MovesToGo

SpecMovesToGo == InitMovesToGo /\ [][NextMovesToGo]_vars

\* C29: when movestogo is not supplied moves_to_go returns a value >= 5, for
\* either side to move and every history length, and neither `ply - 1` nor
\* `estimated length - moves_made` leaves the range of usize.
C29_MovesToGoLowerBound ==
    (trace.op = "moves_to_go" /\ trace.supplied = <<>>) =>
        /\ ~trace.result.panicked
        /\ ~trace.result.overflow
        /\ ~Wide_less(trace.result.value, Wide(5, USIZE_LIMBS))


(***************************************************************************)
(* Specification SpecGo: the engine receives setoption SharpMargin and     *)
(* go movetime reports (engine/comm_reports.rs 156-161).  The search       *)
(* parameters of the search started are in search_params.                  *)
(***************************************************************************)
OVERHEAD == 50

\* Requested move times, in milliseconds
MoveTimes == {0, 1, 49, 50, 51, 100, 1000, 60000}

\* UciReport::GoMoveTime(msecs): sp.move_time = *msecs - (OVERHEAD as u128),
\* sp.search_mode = SearchMode::MoveTime, on the parameters of lines 50-54
go_move_time(s, msecs, build) ==
    IF Wide_sub(Wide(msecs, U128_LIMBS), Wide(OVERHEAD, U128_LIMBS)).overflow
       /\ build = "overflow_checks"
    THEN [panicked |-> TRUE, started |-> <<>>]
    ELSE [panicked |-> FALSE,
          started |-> <<[quiet |-> search_params_of(s).quiet,
                         sharp_margin |-> search_params_of(s).sharp_margin,
                         move_time |-> Wide_sub(Wide(msecs, U128_LIMBS),
                                                Wide(OVERHEAD, U128_LIMBS)).value,
                         search_mode |-> "MoveTime"]>>]

GoMoveTime ==
    /\ \E msecs \in MoveTimes, build \in Builds :
           /\ search_params' = IF go_move_time(settings, msecs, build).panicked
                               THEN search_params
                               ELSE go_move_time(settings, msecs, build).started[1]
           /\ trace' = [op |-> "go_movetime", msecs |-> msecs, build |-> build,
                        panicked |-> go_move_time(settings, msecs, build).panicked]
    /\ UNCHANGED <<board, stack, ret, search_info, thread_local_data, tt, tt_enabled, env,
                   settings>>

NextGo ==
    \/ SetOptionSharpMargin
    \/ GoMoveTime

SpecGo == InitEngine /\ [][NextGo]_vars

\* C30: for every requested move time ms >= 0 the handler of go movetime
\* does not abort and starts a MoveTime search whose move_time is at most ms.
C30_GoMoveTimeBudget ==
    trace.op = "go_movetime" =>
        /\ ~trace.panicked
        /\ search_params.search_mode = "MoveTime"
        /\ ~Wide_less(Wide(trace.msecs, U128_LIMBS), search_params.move_time)

====
